---- MODULE Spec2Model ----
(***************************************************************************)
(* Model of the asd-brightness-daemon coordination engine:                 *)
(*   - hid.Display          (daemon/internal/hid/display.go)               *)
(*   - hid.Manager          (daemon/internal/hid/manager.go)               *)
(*   - dbus.Server          (daemon/internal/dbus/server.go)               *)
(*   - the Coordinator glue (daemon/cmd/asd-brightness-daemon/main.go)     *)
(* Each component has its own specification over its own variables; the    *)
(* variables of the other components stay at their initial values.         *)
(***************************************************************************)
EXTENDS Integers, Sequences, FiniteSets, TLC

VARIABLES
    \* ---- hid.Display (one Display object, several calling threads) ----
    dmu,        \* Display.mu: the thread holding it, or NoThread
    closed,     \* Display.closed
    dpc,        \* per thread: position inside the Display method it runs
    dop,        \* per thread: the method it runs ("get", "set", "close")
    dret,       \* per thread: the value the method returns
    dio,        \* per thread: number of transport calls made by this call
    dafter,     \* per thread: d.closed was already set when it took d.mu
    devGet,     \* transport: GetFeatureReport calls so far
    devSend,    \* transport: SendFeatureReport calls so far
    devClose,   \* transport: Close calls so far
    dcalls,     \* Display method calls started so far
    \* ---- hid.Manager (the displays map, threads calling its methods) ----
    displays,       \* Manager.displays: serial -> the Display it maps to,
                    \*   "none" (no entry), "open" or "closed" (d.closed)
    handles,        \* per serial: HID handles opened and not yet closed
    mmu,            \* Manager.mu held exclusively by this thread, or NoThread
    mpc,            \* per thread: position inside the Manager method
    mop,            \* per thread: the method it runs
    mret,           \* per thread: the value the method returns
    enumErr,        \* per thread: RefreshDisplays' enumerator call failed
    currentDevices, \* per thread: RefreshDisplays' enumerator output
    currentSerials, \* per thread: RefreshDisplays' currentSerials key set
    visited,        \* per thread: keys of currentSerials the open loop has seen
    failed,         \* per thread: serials whose opener call failed in this call
    before,         \* per thread: key set of displays when it took Manager.mu
    nOpened,        \* per thread: opener successes in this call
    nClosed,        \* per thread: Display.Close calls made by this call
    closeErr,       \* per thread: some Display.Close of this call failed
    lastRun,        \* the previous completed Manager call: what it was given
    \* ---- dbus.Server (RPC handlers, one call at a time) ----
    conn,       \* Server.conn is not nil
    tokens,     \* rateLimiter: tokens in the bucket at lastTime, in 1/1000
    lastTime,   \* rateLimiter: time of the last granted call, in ms
    now,        \* the clock, in ms
    allowLog,   \* per rate-limited call so far: its time and Allow()'s answer
    rpc,        \* the last RPC call: what it returned and what it did
    deviceErrorHandler, \* s.deviceErrorHandler is not nil
    device,     \* per serial: the brightness, in nits, the device holds
    \* --- Coordinator (cmd/asd-brightness-daemon/main.go) ---
    refreshMu,  \* holder of refreshMu, or NoThread
    coord,      \* per handler invocation: its position and its locals
    announced,  \* the displays a listener holds that was given the displays
                \*   of the initial refresh and every signal sent since
    \* --- udev.Monitor (internal/udev/monitor.go) ---
    lastRemoveTime, \* per PRODUCT: m.lastRemoveTime, in ms, or NoTime
    mnow,       \* time.Now(), in ms
    mlog,       \* the uevents handled so far, each with what was delivered
    \* --- the uevent matcher of Monitor.Start ---
    evaluated,  \* the last uevent given to the matcher, with the answer
    \* --- udev.Monitor: Start, Stop and processEvents ---
    mon,        \* the Monitor's fields, its consumer goroutine and counters
    mcall,      \* the last call of a Monitor method: what it found and did
    elog,       \* the errors processEvents has dealt with, in order
    \* --- run (cmd/asd-brightness-daemon/main.go) ---
    run,        \* run's position and the teardown steps made so far
    \* --- dbus.Server: emission next to Start and Stop ---
    emitter,    \* per emitting goroutine: its position and its locals
    stopper,    \* per goroutine calling Stop: its position and its locals
    connMu,     \* Server.connMu: the writer and the readers holding it
    bus,        \* whether Start has run, and whether its connection is open
    \* --- diffDisplays ---
    lastDiff,   \* the last diffDisplays call: its snapshots and its result
    \* --- processEvents and the hot-plug handler it calls ---
    cons,       \* the consumer goroutine, its channels and the handler calls
    \* --- Manager.GetDisplay next to RefreshDisplays and Close ---
    getter,     \* the goroutine calling GetDisplay: its position and result
    \* --- the extension's AsdToggle (extension/ui/asdToggle.js) ---
    toggle,     \* the toggle's fields, its menu and its calls in flight
    \* --- two concurrent IncreaseBrightness calls ---
    inc         \* per call: its position, its step and what it read and wrote

displayVars == <<dmu, closed, dpc, dop, dret, dio, dafter, devGet, devSend,
                 devClose, dcalls>>

mgrVars == <<displays, handles, mmu, mpc, mop, mret, enumErr,
             currentDevices, currentSerials, visited, failed, before, nOpened,
             nClosed, closeErr, lastRun>>

srvVars == <<conn, tokens, lastTime, now, allowLog, rpc, deviceErrorHandler>>

coordVars == <<refreshMu, coord, announced>>
monVars == <<lastRemoveTime, mnow, mlog>>
lifeVars == <<mon, mcall, elog>>
emitVars == <<emitter, stopper, connMu, bus>>
extVars == <<evaluated, lifeVars, run, emitVars, lastDiff, cons,
            getter, toggle>>
vars == <<displayVars, mgrVars, srvVars, device, coordVars, monVars, extVars,
          inc>>

NoThread == "none"

(***************************************************************************)
(* hid.Display                                                             *)
(***************************************************************************)
DThreads == {"t1", "t2", "t3"}

\* Number of Display method calls explored.
MaxDisplayCalls == 5

DisplayOps == {"get", "set", "close"}

ErrDisplayClosed == "display is closed"
ErrTransport     == "transport error"
Ok               == "ok"

InitDisplay ==
    /\ dmu = NoThread
    /\ closed = FALSE
    /\ dpc = [t \in DThreads |-> "idle"]
    /\ dop = [t \in DThreads |-> "none"]
    /\ dret = [t \in DThreads |-> "none"]
    /\ dio = [t \in DThreads |-> 0]
    /\ dafter = [t \in DThreads |-> FALSE]
    /\ devGet = 0
    /\ devSend = 0
    /\ devClose = 0
    /\ dcalls = 0

\* A thread calls GetBrightness, SetBrightness or Close on the Display.
DisplayCall(t, op) ==
    /\ dpc[t] = "idle"
    /\ dcalls < MaxDisplayCalls
    /\ dcalls' = dcalls + 1
    /\ dpc' = [dpc EXCEPT ![t] = "lock"]
    /\ dop' = [dop EXCEPT ![t] = op]
    /\ dret' = [dret EXCEPT ![t] = "none"]
    /\ dio' = [dio EXCEPT ![t] = 0]
    /\ dafter' = [dafter EXCEPT ![t] = FALSE]
    /\ UNCHANGED <<dmu, closed, devGet, devSend, devClose>>

\* d.mu.Lock()
DisplayLock(t) ==
    /\ dpc[t] = "lock"
    /\ dmu = NoThread
    /\ dmu' = t
    /\ dpc' = [dpc EXCEPT ![t] = "check"]
    /\ dafter' = [dafter EXCEPT ![t] = closed]
    /\ UNCHANGED <<closed, dop, dret, dio, devGet, devSend, devClose, dcalls>>

\* A variant of the closed test that forgets to look at d.closed.
ClosedTestMissing(t) == FALSE

\* `if d.closed` as evaluated by thread t.
ClosedTest(t) == closed

\* A variant in which a second Close reports the closed error as well.
ClosedResultAlwaysError(op) == ErrDisplayClosed

\* The value each method returns when it finds the Display closed.
ClosedResult(op) == IF op = "close" THEN Ok ELSE ErrDisplayClosed

\* if d.closed { return ... }
DisplayCheck(t) ==
    /\ dpc[t] = "check"
    /\ IF ClosedTest(t)
         THEN /\ dret' = [dret EXCEPT ![t] = ClosedResult(dop[t])]
              /\ dpc' = [dpc EXCEPT ![t] = "unlock"]
         ELSE /\ dpc' = [dpc EXCEPT ![t] = "io"]
              /\ dret' = dret
    /\ UNCHANGED <<dmu, closed, dop, dio, dafter, devGet, devSend, devClose,
                   dcalls>>

\* The transport call of the method: GetFeatureReport, SendFeatureReport or
\* (after d.closed = true) device.Close(); each may fail.
DisplayIO(t) ==
    /\ dpc[t] = "io"
    /\ \E res \in {Ok, ErrTransport} :
         dret' = [dret EXCEPT ![t] = res]
    /\ dio' = [dio EXCEPT ![t] = @ + 1]
    /\ dpc' = [dpc EXCEPT ![t] = "unlock"]
    /\ CASE dop[t] = "get" ->
              /\ devGet' = devGet + 1
              /\ UNCHANGED <<devSend, devClose, closed>>
         [] dop[t] = "set" ->
              /\ devSend' = devSend + 1
              /\ UNCHANGED <<devGet, devClose, closed>>
         [] dop[t] = "close" ->
              /\ closed' = TRUE
              /\ devClose' = devClose + 1
              /\ UNCHANGED <<devGet, devSend>>
    /\ UNCHANGED <<dmu, dop, dafter, dcalls>>

\* defer d.mu.Unlock(): the method has returned dret[t].
DisplayUnlock(t) ==
    /\ dpc[t] = "unlock"
    /\ dmu' = NoThread
    /\ dpc' = [dpc EXCEPT ![t] = "done"]
    /\ UNCHANGED <<closed, dop, dret, dio, dafter, devGet, devSend, devClose,
                   dcalls>>

\* The caller has consumed the result.
DisplayReturn(t) ==
    /\ dpc[t] = "done"
    /\ dpc' = [dpc EXCEPT ![t] = "idle"]
    /\ dop' = [dop EXCEPT ![t] = "none"]
    /\ dret' = [dret EXCEPT ![t] = "none"]
    /\ dio' = [dio EXCEPT ![t] = 0]
    /\ dafter' = [dafter EXCEPT ![t] = FALSE]
    /\ UNCHANGED <<dmu, closed, devGet, devSend, devClose, dcalls>>

NextDisplay ==
    /\ \E t \in DThreads :
        \/ \E op \in DisplayOps : DisplayCall(t, op)
        \/ DisplayLock(t)
        \/ DisplayCheck(t)
        \/ DisplayIO(t)
        \/ DisplayUnlock(t)
        \/ DisplayReturn(t)
    /\ UNCHANGED <<mgrVars, srvVars, device, coordVars, monVars, extVars, inc>>

(***************************************************************************)
(* hid.Manager                                                             *)
(***************************************************************************)
MThreads == {"m1", "m2"}

Serials == {"A", "B", "C"}

\* Longest enumerator output explored (a serial may be listed twice).
MaxEnum == 2

ErrEnumerate == "failed to enumerate displays"

\* The enumerator outputs explored: every list of at most MaxEnum serials.
EnumOutputs == UNION {[1..n -> Serials] : n \in 0..MaxEnum}

NoDisplays == [s \in Serials |-> "none"]

\* The keys of m.displays.
Keys(m) == {s \in Serials : m[s] # "none"}

\* m.Count()
Count == Cardinality(Keys(displays))

NoRun == [op |-> "none", devices |-> <<>>, failed |-> {}]

InitManager ==
    /\ displays = NoDisplays
    /\ handles = [s \in Serials |-> 0]
    /\ mmu = NoThread
    /\ mpc = [t \in MThreads |-> "idle"]
    /\ mop = [t \in MThreads |-> "none"]
    /\ mret = [t \in MThreads |-> "none"]
    /\ enumErr = [t \in MThreads |-> FALSE]
    /\ currentDevices = [t \in MThreads |-> <<>>]
    /\ currentSerials = [t \in MThreads |-> {}]
    /\ visited = [t \in MThreads |-> {}]
    /\ failed = [t \in MThreads |-> {}]
    /\ before = [t \in MThreads |-> {}]
    /\ nOpened = [t \in MThreads |-> 0]
    /\ nClosed = [t \in MThreads |-> 0]
    /\ closeErr = [t \in MThreads |-> FALSE]
    /\ lastRun = NoRun

mgrShared == <<displays, handles>>
mgrLocals == <<enumErr, currentDevices, currentSerials, visited, failed, before,
               nOpened, nClosed, closeErr>>

\* A thread calls m.RefreshDisplays() or m.Close().
ManagerCall(t, op) ==
    /\ mpc[t] = "idle"
    /\ mpc' = [mpc EXCEPT ![t] = "lock"]
    /\ mop' = [mop EXCEPT ![t] = op]
    /\ UNCHANGED <<mgrShared, mmu, mret, mgrLocals, lastRun>>

\* The goroutine in GetDisplay holds m.mu for reading.
ReaderHolds == getter.pc \in {"read", "runlock"}

\* m.mu.Lock() can be taken: no writer and no reader holds m.mu.
ManagerMuFree == mmu = NoThread /\ ~ReaderHolds

\* m.mu.Lock()
ManagerLock(t) ==
    /\ mpc[t] = "lock"
    /\ ManagerMuFree
    /\ mmu' = t
    /\ before' = [before EXCEPT ![t] = Keys(displays)]
    /\ mpc' = [mpc EXCEPT ![t] = IF mop[t] = "refresh" THEN "enum" ELSE "closeall"]
    /\ UNCHANGED <<mgrShared, mop, mret, enumErr, currentDevices,
                   currentSerials, visited, failed, nOpened, nClosed,
                   closeErr, lastRun>>

\* A variant of the failure path that closes and drops every Display before
\* returning the error.
EnumFailureClears(m) == NoDisplays

\* What the failure path of m.enumerator() leaves in m.displays.
EnumFailureKeeps(m) == m

\* currentDevices, err := m.enumerator(); on error return it.
RefreshEnumerate(t) ==
    /\ mpc[t] = "enum"
    /\ \/ /\ enumErr' = [enumErr EXCEPT ![t] = TRUE]
          /\ mret' = [mret EXCEPT ![t] = ErrEnumerate]
          /\ mpc' = [mpc EXCEPT ![t] = "unlock"]
          /\ displays' = EnumFailureKeeps(displays)
          /\ handles' = [s \in Serials |->
                            IF displays'[s] = displays[s] THEN handles[s] ELSE 0]
          /\ UNCHANGED currentDevices
       \/ /\ \E devs \in EnumOutputs :
                currentDevices' = [currentDevices EXCEPT ![t] = devs]
          /\ mpc' = [mpc EXCEPT ![t] = "build"]
          /\ UNCHANGED <<mret, enumErr, displays, handles>>
    /\ UNCHANGED <<mmu, mop, currentSerials, visited, failed, before, nOpened,
                   nClosed, closeErr, lastRun>>

\* The key set of currentSerials built from the enumerator output: a serial
\* listed twice is one key.
BuildCurrentSerials(devs) == {devs[i] : i \in 1..Len(devs)}

\* for _, info := range currentDevices { currentSerials[info.Serial] = info }
RefreshBuild(t) ==
    /\ mpc[t] = "build"
    /\ currentSerials' = [currentSerials EXCEPT
                             ![t] = BuildCurrentSerials(currentDevices[t])]
    /\ mpc' = [mpc EXCEPT ![t] = "remove"]
    /\ UNCHANGED <<mgrShared, mmu, mop, mret, enumErr, currentDevices,
                   visited, failed, before, nOpened, nClosed, closeErr,
                   lastRun>>

\* A variant of the removal test that keeps every entry.
ToRemoveNothing(m, current) == {}

\* A variant of the removal test with the exists test inverted.
ToRemoveInverted(m, current) == {s \in Keys(m) : s \in current}

\* The serials the removal loop closes and deletes:
\* if _, exists := currentSerials[serial]; !exists
ToRemove(m, current) == {s \in Keys(m) : s \notin current}

\* display.Close() on the Display of serial s followed by
\* delete(m.displays, s). No other thread uses the Display, so its mutex is
\* free; the transport's Close is called unless the Display is closed
\* already, and its error is logged only.
CloseAndDelete(s, fails, t) ==
    /\ handles' = [handles EXCEPT ![s] = IF displays[s] = "open" THEN @ - 1 ELSE @]
    /\ displays' = [displays EXCEPT ![s] = "none"]
    /\ nClosed' = [nClosed EXCEPT ![t] = @ + 1]
    /\ closeErr' = [closeErr EXCEPT ![t] = @ \/ (fails /\ displays[s] = "open")]

\* One iteration of the removal loop that does something.
RefreshRemove(t) ==
    /\ mpc[t] = "remove"
    /\ \E s \in ToRemove(displays, currentSerials[t]) :
         \E fails \in BOOLEAN : CloseAndDelete(s, fails, t)
    /\ UNCHANGED <<mmu, mpc, mop, mret, enumErr, currentDevices,
                   currentSerials, visited, failed, before, nOpened, lastRun>>

\* The removal loop has nothing left to do.
RefreshRemoveDone(t) ==
    /\ mpc[t] = "remove"
    /\ ToRemove(displays, currentSerials[t]) = {}
    /\ mpc' = [mpc EXCEPT ![t] = "open"]
    /\ UNCHANGED <<mgrShared, mmu, mop, mret, mgrLocals, lastRun>>

\* A variant of the open loop that opens every enumerated serial, also one
\* that is in the map already.
NeedsOpenAlways(m, s) == TRUE

\* if _, exists := m.displays[serial]; !exists
NeedsOpen(m, s) == m[s] = "none"

\* One iteration of the open loop: a key of currentSerials not seen yet; if
\* it is not in the map call the opener, and on success insert a new Display.
RefreshOpen(t) ==
    /\ mpc[t] = "open"
    /\ \E s \in currentSerials[t] \ visited[t] :
        /\ visited' = [visited EXCEPT ![t] = @ \cup {s}]
        /\ IF NeedsOpen(displays, s)
             THEN \/ /\ handles' = [handles EXCEPT ![s] = @ + 1]
                     /\ displays' = [displays EXCEPT ![s] = "open"]
                     /\ nOpened' = [nOpened EXCEPT ![t] = @ + 1]
                     /\ UNCHANGED failed
                  \/ /\ failed' = [failed EXCEPT ![t] = @ \cup {s}]
                     /\ UNCHANGED <<handles, displays, nOpened>>
             ELSE UNCHANGED <<handles, displays, nOpened, failed>>
    /\ UNCHANGED <<mmu, mpc, mop, mret, enumErr, currentDevices,
                   currentSerials, before, nClosed, closeErr, lastRun>>

\* The open loop has visited every key of currentSerials: return nil.
RefreshOpenDone(t) ==
    /\ mpc[t] = "open"
    /\ currentSerials[t] \ visited[t] = {}
    /\ mret' = [mret EXCEPT ![t] = Ok]
    /\ mpc' = [mpc EXCEPT ![t] = "unlock"]
    /\ UNCHANGED <<mgrShared, mmu, mop, mgrLocals, lastRun>>

\* A variant of Manager.Close's loop that gives up at the first close error.
CloseAllStopsOnError(m, err) == m = NoDisplays \/ err

\* Manager.Close's loop is over when it has ranged over the whole map.
CloseAllFinished(m, err) == m = NoDisplays

\* One iteration of Manager.Close's loop.
ManagerCloseOne(t) ==
    /\ mpc[t] = "closeall"
    /\ ~CloseAllFinished(displays, closeErr[t])
    /\ \E s \in Keys(displays) :
         \E fails \in BOOLEAN : CloseAndDelete(s, fails, t)
    /\ UNCHANGED <<mmu, mpc, mop, mret, enumErr, currentDevices,
                   currentSerials, visited, failed, before, nOpened, lastRun>>

\* Manager.Close has ranged over the map: return nil.
ManagerCloseDone(t) ==
    /\ mpc[t] = "closeall"
    /\ CloseAllFinished(displays, closeErr[t])
    /\ mret' = [mret EXCEPT ![t] = Ok]
    /\ mpc' = [mpc EXCEPT ![t] = "unlock"]
    /\ UNCHANGED <<mgrShared, mmu, mop, mgrLocals, lastRun>>

\* defer m.mu.Unlock(): the method returns mret[t] to its caller; the call
\* becomes the previous run.
ManagerUnlock(t) ==
    /\ mpc[t] = "unlock"
    /\ mmu' = IF mmu = t THEN NoThread ELSE mmu
    /\ lastRun' = IF mop[t] = "refresh" /\ mret[t] = Ok
                    THEN [op |-> "refresh", devices |-> currentDevices[t],
                          failed |-> failed[t]]
                    ELSE [op |-> "other", devices |-> <<>>, failed |-> {}]
    /\ mpc' = [mpc EXCEPT ![t] = "idle"]
    /\ mop' = [mop EXCEPT ![t] = "none"]
    /\ mret' = [mret EXCEPT ![t] = "none"]
    /\ enumErr' = [enumErr EXCEPT ![t] = FALSE]
    /\ currentDevices' = [currentDevices EXCEPT ![t] = <<>>]
    /\ currentSerials' = [currentSerials EXCEPT ![t] = {}]
    /\ visited' = [visited EXCEPT ![t] = {}]
    /\ failed' = [failed EXCEPT ![t] = {}]
    /\ before' = [before EXCEPT ![t] = {}]
    /\ nOpened' = [nOpened EXCEPT ![t] = 0]
    /\ nClosed' = [nClosed EXCEPT ![t] = 0]
    /\ closeErr' = [closeErr EXCEPT ![t] = FALSE]
    /\ UNCHANGED mgrShared

NextManager ==
    /\ \E t \in MThreads :
        \/ \E op \in {"refresh", "close"} : ManagerCall(t, op)
        \/ ManagerLock(t)
        \/ RefreshEnumerate(t)
        \/ RefreshBuild(t)
        \/ RefreshRemove(t)
        \/ RefreshRemoveDone(t)
        \/ RefreshOpen(t)
        \/ RefreshOpenDone(t)
        \/ ManagerCloseOne(t)
        \/ ManagerCloseDone(t)
        \/ ManagerUnlock(t)
    /\ UNCHANGED <<displayVars, srvVars, device, coordVars, monVars, extVars, inc>>

(***************************************************************************)
(* dbus.Server                                                             *)
(***************************************************************************)
rateLimitPerSecond == 20

\* A variant with a burst of six.
rateLimitBurstSix == 5 + 1

rateLimitBurst == 5

\* One token, in the unit of `tokens`.
OneToken == 1000

\* The clock advances in steps of TickMs, at most MaxTicks times.
TickMs == 25
MaxTicks == 3

\* Number of rate-limited RPC calls explored.
MaxCalls == 6

ErrRateLimitExceeded == "rate limit exceeded"
ErrEmptySerial       == "serial cannot be empty"
ErrInvalidStep       == "step must be between 1 and 100"
ErrNotFound          == "display not found"
ErrDeviceGone        == "no such device"

\* The arguments and device answers explored.
SerialArgs      == Serials \cup {""}
BrightnessArgs  == {50, 150}
StepArgs        == {0, 10, 101}
ReadValues      == {5, 95}
DisplayOutcomes == {Ok, ErrTransport, ErrDeviceGone, ErrDisplayClosed}

MutatingOps == {"SetBrightness", "IncreaseBrightness", "DecreaseBrightness",
                "SetAllBrightness"}

\* The errors hid.IsDeviceGoneError tells by errors.Is and those it tells by
\* their message.
DeviceGoneErrnos == {"ENODEV", "ENOENT", "EIO"}
DeviceGonePatterns == {"no such device", "no such file or directory",
                       "device not configured", "bad file descriptor"}

\* hid.IsDeviceGoneError on the errors explored; Ok is the nil error.
IsDeviceGoneError(err) == err \in DeviceGoneErrnos \cup DeviceGonePatterns

\* What a Display method called by a single-display RPC returns.
TransportOutcomes == DisplayOutcomes \cup DeviceGoneErrnos \cup DeviceGonePatterns

\* The Display method made a transport call (it did not find d.closed).
MadeTransportCall(out) == out # ErrDisplayClosed

\* No serial argument (SetAllBrightness, ListDisplays).
NoSerial == "-"

\* The record of one RPC call: its arguments, what it found of the bucket
\* and of s.deviceErrorHandler, for SetAllBrightness the displays
\* ListDisplays returned, what came of each and whether s.conn was set,
\* what it returned (ret, and value for GetBrightness) and what it did.
NoCall == [op |-> "none", serial |-> NoSerial, arg |-> 0, empty |-> FALSE,
           handler |-> FALSE, connected |-> FALSE,
           listed |-> <<>>, outs |-> <<>>,
           ret |-> "none", value |-> 0, lookups |-> 0,
           lists |-> 0, reads |-> 0, writes |-> <<>>, emits |-> <<>>,
           recov |-> <<>>]

\* The record of a call of op with its arguments.
Called(op, serial, arg) ==
    [NoCall EXCEPT !.op = op, !.serial = serial, !.arg = arg]

\* The server after Start, with two displays in the Manager's map.
InitServer ==
    /\ conn = TRUE
    /\ tokens = rateLimitBurst * OneToken
    /\ lastTime = 0
    /\ now = 0
    /\ allowLog = <<>>
    /\ rpc = NoCall
    /\ deviceErrorHandler = FALSE

\* The bucket as rate.Limiter computes it at time t: tokens refill at
\* rateLimitPerSecond per second up to rateLimitBurst.
TokensAt(t) ==
    LET refilled == tokens + (t - lastTime) * rateLimitPerSecond
    IN  IF refilled > rateLimitBurst * OneToken
          THEN rateLimitBurst * OneToken
          ELSE refilled

\* s.rateLimiter.Allow(): a token is available now.
Allow == TokensAt(now) >= OneToken

\* The effect of the call on the limiter; Allow() is called by the mutating
\* methods only.
LimiterStep(mutating) ==
    IF mutating
      THEN /\ allowLog' = Append(allowLog, [t |-> now, passed |-> Allow])
           /\ IF Allow
                THEN /\ tokens' = TokensAt(now) - OneToken
                     /\ lastTime' = now
                ELSE UNCHANGED <<tokens, lastTime>>
      ELSE UNCHANGED <<allowLog, tokens, lastTime>>

\* The call has returned: rec is what it returned and did.
RpcReturn(rec) ==
    /\ rec.op \in MutatingOps => Len(allowLog) < MaxCalls
    /\ rpc' = [rec EXCEPT !.empty = TokensAt(now) < OneToken,
                          !.handler = deviceErrorHandler]
    /\ LimiterStep(rec.op \in MutatingOps)
    /\ UNCHANGED <<conn, now, deviceErrorHandler>>

\* A variant in which the limiter is asked only after the display lookup.
RateLimitedAfterLookup(op) ==
    [NoCall EXCEPT !.op = op, !.ret = ErrRateLimitExceeded, !.lookups = 1]

\* if !s.rateLimiter.Allow() { return dbus.MakeFailedError(ErrRateLimitExceeded) }
RateLimited(op) == [NoCall EXCEPT !.op = op, !.ret = ErrRateLimitExceeded]

\* The refused call's record with its arguments.
WithArgs(rec, serial, arg) == [rec EXCEPT !.serial = serial, !.arg = arg]

\* A variant of the clamp that lets the percent through.
ClampPercentMissing(brightness) == brightness

\* if brightness > 100 { brightness = 100 }
ClampPercent(brightness) == IF brightness > 100 THEN 100 ELSE brightness

\* s.emitBrightnessChanged: nothing is sent when s.conn is nil.
EmitBrightnessChanged(serial, percent) ==
    IF conn THEN << <<"BrightnessChanged", serial, percent>> >> ELSE <<>>

\* A variant of handleDeviceError that starts the handler on every error.
HandleDeviceErrorAlways(serial, err) == << <<serial, err>> >>

\* s.handleDeviceError: the handler calls it starts on tasks of their own,
\* each with its arguments.
HandleDeviceError(serial, err) ==
    IF IsDeviceGoneError(err) /\ deviceErrorHandler
      THEN << <<serial, err>> >>
      ELSE <<>>

\* A variant of SetBrightness that emits the signal before it looks at what
\* display.SetBrightness returned.
SetBrightnessEmitsFirst(serial, brightness, out) ==
    LET op == "SetBrightness"
        call == Called(op, serial, brightness)
        clamped == ClampPercent(brightness)
    IN  IF ~Allow THEN WithArgs(RateLimited(op), serial, brightness)
        ELSE IF serial = "" THEN [call EXCEPT !.ret = ErrEmptySerial]
        ELSE IF displays[serial] = "none"
          THEN [call EXCEPT !.ret = ErrNotFound, !.lookups = 1]
        ELSE [call EXCEPT !.ret = out, !.lookups = 1,
                 !.writes = IF MadeTransportCall(out)
                              THEN << <<serial, clamped>> >> ELSE <<>>,
                 !.emits = EmitBrightnessChanged(serial, clamped),
                 !.recov = IF out = Ok THEN <<>>
                           ELSE HandleDeviceError(serial, out)]

\* Server.SetBrightness(serial, brightness); out is what display.SetBrightness
\* returns.
SetBrightnessResult(serial, brightness, out) ==
    LET op == "SetBrightness"
        call == Called(op, serial, brightness)
        clamped == ClampPercent(brightness)
    IN  IF ~Allow THEN WithArgs(RateLimited(op), serial, brightness)
        ELSE IF serial = "" THEN [call EXCEPT !.ret = ErrEmptySerial]
        ELSE IF displays[serial] = "none"
          THEN [call EXCEPT !.ret = ErrNotFound, !.lookups = 1]
        ELSE IF out # Ok
          THEN [call EXCEPT !.ret = out, !.lookups = 1,
                   !.writes = IF MadeTransportCall(out)
                                THEN << <<serial, clamped>> >> ELSE <<>>,
                   !.recov = HandleDeviceError(serial, out)]
        ELSE [call EXCEPT !.ret = Ok, !.lookups = 1,
                 !.writes = << <<serial, clamped>> >>,
                 !.emits = EmitBrightnessChanged(serial, clamped)]

\* The call gets as far as calling a method of the Display of serial.
ReachesDisplay(serial) ==
    /\ serial # ""
    /\ displays[serial] # "none"

SetBrightness ==
    \E serial \in SerialArgs, brightness \in BrightnessArgs :
        IF Allow /\ ReachesDisplay(serial)
          THEN \E out \in TransportOutcomes :
                  RpcReturn(SetBrightnessResult(serial, brightness, out))
          ELSE RpcReturn(SetBrightnessResult(serial, brightness, Ok))

\* A variant of the step test that accepts every step.
InvalidStepNever(step) == FALSE

\* if step == 0 || step > 100
InvalidStep(step) == step = 0 \/ step > 100

\* A variant of newBrightness without its two limits.
NewBrightnessUnlimited(op, current, step) ==
    IF op = "IncreaseBrightness" THEN current + step ELSE current - step

\* newBrightness of IncreaseBrightness and DecreaseBrightness.
NewBrightness(op, current, step) ==
    IF op = "IncreaseBrightness"
      THEN IF current + step > 100 THEN 100 ELSE current + step
      ELSE IF current > step THEN current - step ELSE 0

\* Server.IncreaseBrightness / DecreaseBrightness(serial, step); rd and wr are
\* what display.GetBrightness and display.SetBrightness return.
StepBrightnessResult(op, serial, step, current, rd, wr) ==
    LET new == NewBrightness(op, current, step)
        call == Called(op, serial, step)
    IN  IF ~Allow THEN WithArgs(RateLimited(op), serial, step)
        ELSE IF serial = "" THEN [call EXCEPT !.ret = ErrEmptySerial]
        ELSE IF InvalidStep(step)
          THEN [call EXCEPT !.ret = ErrInvalidStep]
        ELSE IF displays[serial] = "none"
          THEN [call EXCEPT !.ret = ErrNotFound, !.lookups = 1]
        ELSE IF rd # Ok
          THEN [call EXCEPT !.ret = rd, !.lookups = 1,
                   !.reads = IF MadeTransportCall(rd) THEN 1 ELSE 0,
                   !.recov = HandleDeviceError(serial, rd)]
        ELSE IF wr # Ok
          THEN [call EXCEPT !.ret = wr, !.value = current, !.lookups = 1,
                   !.reads = 1,
                   !.writes = IF MadeTransportCall(wr)
                                THEN << <<serial, new>> >> ELSE <<>>,
                   !.recov = HandleDeviceError(serial, wr)]
        ELSE [call EXCEPT !.ret = Ok, !.value = current, !.lookups = 1,
                 !.reads = 1,
                 !.writes = << <<serial, new>> >>,
                 !.emits = EmitBrightnessChanged(serial, new)]

\* The device is asked only as far as the call gets: for the read when the
\* call reaches the Display, for the write when the read succeeded.
StepBrightness(op) ==
    \E serial \in SerialArgs, step \in StepArgs :
        IF Allow /\ ReachesDisplay(serial) /\ ~InvalidStep(step)
          THEN \E rd \in TransportOutcomes :
                  IF rd = Ok
                    THEN \E current \in ReadValues, wr \in TransportOutcomes :
                            RpcReturn(StepBrightnessResult(op, serial, step,
                                                           current, rd, wr))
                    ELSE RpcReturn(StepBrightnessResult(op, serial, step, 0,
                                                        rd, Ok))
          ELSE RpcReturn(StepBrightnessResult(op, serial, step, 0, Ok, Ok))

IncreaseBrightness == StepBrightness("IncreaseBrightness")

DecreaseBrightness == StepBrightness("DecreaseBrightness")

\* The orders in which ListDisplays may return the displays of the map.
ListOrders ==
    LET ks == Keys(displays)
    IN  {f \in [1..Cardinality(ks) -> ks] : \A i, j \in DOMAIN f :
                                               i # j => f[i] # f[j]}

\* Server.SetAllBrightness(brightness); ord is what ListDisplays returned,
\* out[s] is ErrNotFound when GetDisplay(s) no longer finds s and else what
\* display.SetBrightness returns for s.
\* A variant of SetAllBrightness that returns the first error it meets.
SetAllBrightnessFailFast(brightness, ord, out) ==
    LET op == "SetAllBrightness"
        clamped == ClampPercent(brightness)
        bad == {i \in 1..Len(ord) : out[ord[i]] # Ok}
        n == IF bad = {} THEN Len(ord)
             ELSE CHOOSE i \in bad : \A j \in bad : i <= j
        seen == SubSeq(ord, 1, n)
        Tried(s) == out[s] # ErrNotFound /\ MadeTransportCall(out[s])
        Done(s) == out[s] = Ok
        tried == SelectSeq(seen, Tried)
        done == SelectSeq(seen, Done)
    IN  IF ~Allow THEN WithArgs(RateLimited(op), NoSerial, brightness)
        ELSE [Called(op, NoSerial, brightness) EXCEPT
                 !.ret = IF bad = {} THEN Ok ELSE out[ord[n]],
                 !.lists = 1, !.lookups = n,
                 !.listed = ord, !.connected = conn,
                 !.outs = [i \in 1..Len(ord) |-> out[ord[i]]],
                 !.writes = [i \in 1..Len(tried) |-> <<tried[i], clamped>>],
                 !.emits = IF conn
                             THEN [i \in 1..Len(done) |->
                                     <<"BrightnessChanged", done[i], clamped>>]
                             ELSE <<>>]

SetAllBrightnessResult(brightness, ord, out) ==
    LET op == "SetAllBrightness"
        clamped == ClampPercent(brightness)
        Tried(s) == out[s] # ErrNotFound /\ MadeTransportCall(out[s])
        Done(s) == out[s] = Ok
        Gone(s) == IsDeviceGoneError(out[s])
        tried == SelectSeq(ord, Tried)
        done == SelectSeq(ord, Done)
        gone == SelectSeq(ord, Gone)
    IN  IF ~Allow THEN WithArgs(RateLimited(op), NoSerial, brightness)
        ELSE [Called(op, NoSerial, brightness) EXCEPT !.ret = Ok, !.lists = 1,
                 !.lookups = Len(ord),
                 !.listed = ord, !.connected = conn,
                 !.outs = [i \in 1..Len(ord) |-> out[ord[i]]],
                 !.writes = [i \in 1..Len(tried) |-> <<tried[i], clamped>>],
                 !.emits = IF conn
                             THEN [i \in 1..Len(done) |->
                                     <<"BrightnessChanged", done[i], clamped>>]
                             ELSE <<>>,
                 !.recov = IF deviceErrorHandler
                             THEN [i \in 1..Len(gone) |->
                                     <<gone[i], out[gone[i]]>>]
                             ELSE <<>>]

SetAllBrightness ==
    \E brightness \in BrightnessArgs :
        IF Allow
          THEN \E ord \in ListOrders,
                  out \in [Keys(displays) -> DisplayOutcomes \cup {ErrNotFound}] :
                  RpcReturn(SetAllBrightnessResult(brightness, ord, out))
          ELSE RpcReturn(SetAllBrightnessResult(brightness, <<>>,
                                                [s \in {} |-> Ok]))

\* Server.GetBrightness(serial): not rate-limited; rd and current are what
\* display.GetBrightness returns.
GetBrightnessResult(serial, current, rd) ==
    LET call == Called("GetBrightness", serial, 0)
    IN  IF serial = "" THEN [call EXCEPT !.ret = ErrEmptySerial]
        ELSE IF displays[serial] = "none"
          THEN [call EXCEPT !.ret = ErrNotFound, !.lookups = 1]
        ELSE [call EXCEPT !.ret = rd, !.lookups = 1,
                 !.value = IF rd = Ok THEN current ELSE 0,
                 !.reads = IF MadeTransportCall(rd) THEN 1 ELSE 0,
                 !.recov = HandleDeviceError(serial, rd)]

GetBrightness ==
    \E serial \in SerialArgs :
        IF ReachesDisplay(serial)
          THEN \E rd \in TransportOutcomes :
                  IF rd = Ok
                    THEN \E current \in ReadValues :
                            RpcReturn(GetBrightnessResult(serial, current, rd))
                    ELSE RpcReturn(GetBrightnessResult(serial, 0, rd))
          ELSE RpcReturn(GetBrightnessResult(serial, 0, Ok))

\* Server.ListDisplays(): not rate-limited.
ListDisplays ==
    RpcReturn([NoCall EXCEPT !.op = "ListDisplays", !.ret = Ok, !.lists = 1])

\* Server.Stop(): s.conn = nil.
ServerStop ==
    /\ conn
    /\ conn' = FALSE
    /\ UNCHANGED <<tokens, lastTime, now, allowLog, rpc, deviceErrorHandler>>

\* Server.SetDeviceErrorHandler(handler), with a handler or with nil.
SetDeviceErrorHandler ==
    /\ deviceErrorHandler' = ~deviceErrorHandler
    /\ UNCHANGED <<conn, tokens, lastTime, now, allowLog, rpc>>

\* Time passes.
Tick ==
    /\ now < MaxTicks * TickMs
    /\ now' = now + TickMs
    /\ UNCHANGED <<conn, tokens, lastTime, allowLog, rpc, deviceErrorHandler>>

\* The RPC surface, called back to back.
NextServer ==
    /\ \/ SetBrightness
       \/ IncreaseBrightness
       \/ DecreaseBrightness
       \/ SetAllBrightness
       \/ GetBrightness
       \/ ListDisplays
       \/ ServerStop
       \/ SetDeviceErrorHandler
    /\ UNCHANGED <<displayVars, mgrVars, device, coordVars, monVars, extVars, inc>>

\* SetBrightness calls spread over time.
NextRate ==
    /\ \/ SetBrightness
       \/ Tick
    /\ UNCHANGED <<displayVars, mgrVars, device, coordVars, monVars, extVars, inc>>

\* SetAllBrightness calls, next to Stop and SetDeviceErrorHandler.
NextSetAll ==
    /\ \/ SetAllBrightness
       \/ ServerStop
       \/ SetDeviceErrorHandler
    /\ UNCHANGED <<displayVars, mgrVars, device, coordVars, monVars, extVars, inc>>

\* The Manager as the server finds it: displays A and B are connected.
ManagerWithTwoDisplays ==
    /\ displays = [s \in Serials |-> IF s \in {"A", "B"} THEN "open" ELSE "none"]
    /\ handles = [s \in Serials |-> IF s \in {"A", "B"} THEN 1 ELSE 0]
    /\ mmu = NoThread
    /\ mpc = [t \in MThreads |-> "idle"]
    /\ mop = [t \in MThreads |-> "none"]
    /\ mret = [t \in MThreads |-> "none"]
    /\ enumErr = [t \in MThreads |-> FALSE]
    /\ currentDevices = [t \in MThreads |-> <<>>]
    /\ currentSerials = [t \in MThreads |-> {}]
    /\ visited = [t \in MThreads |-> {}]
    /\ failed = [t \in MThreads |-> {}]
    /\ before = [t \in MThreads |-> {}]
    /\ nOpened = [t \in MThreads |-> 0]
    /\ nClosed = [t \in MThreads |-> 0]
    /\ closeErr = [t \in MThreads |-> FALSE]
    /\ lastRun = [op |-> "refresh", devices |-> <<"A", "B">>, failed |-> {}]

(***************************************************************************)
(* hid.Manager: GetDisplay                                                 *)
(***************************************************************************)
\* The goroutine outside GetDisplay. seen is the key set of m.displays at
\* the read of the call and during the writer that held m.mu then.
IdleGetter == [pc |-> "idle", serial |-> NoSerial, ret |-> "none",
               seen |-> {}, during |-> NoThread]

InitGetter == getter = IdleGetter

\* m.GetDisplay(serial) is called.
GetDisplayCall(serial) ==
    /\ getter.pc = "idle"
    /\ getter' = [IdleGetter EXCEPT !.pc = "rlock", !.serial = serial]

\* A variant of GetDisplay that reads the map without m.mu.
RLockFreeAlways == TRUE

\* m.mu.RLock() can be taken: no writer holds m.mu.
RLockFree == mmu = NoThread

\* m.mu.RLock()
GetDisplayRLock ==
    /\ getter.pc = "rlock"
    /\ RLockFree
    /\ getter' = [getter EXCEPT !.pc = "read"]

\* display, ok := m.displays[serial]; not found is an error.
GetDisplayRead ==
    /\ getter.pc = "read"
    /\ getter' = [getter EXCEPT
                     !.pc = "runlock",
                     !.ret = IF displays[getter.serial] = "none"
                               THEN ErrNotFound ELSE Ok,
                     !.seen = Keys(displays),
                     !.during = mmu]

\* defer m.mu.RUnlock(): GetDisplay returns.
GetDisplayRUnlock ==
    /\ getter.pc = "runlock"
    /\ getter' = IdleGetter

NextGet ==
    \/ /\ \/ \E serial \in Serials : GetDisplayCall(serial)
          \/ GetDisplayRLock
          \/ GetDisplayRead
          \/ GetDisplayRUnlock
       /\ UNCHANGED <<displayVars, mgrVars, srvVars, device, coordVars, monVars,
                      evaluated, lifeVars, run, emitVars, lastDiff, cons, toggle,
                      inc>>
    \/ NextManager

(***************************************************************************)
(* brightness package and the device behind a Display                      *)
(***************************************************************************)
MinBrightness == 400
MaxBrightness == 60000
BrightnessRange == MaxBrightness - MinBrightness

\* brightness.ClampNits
ClampNits(nits) ==
    IF nits < MinBrightness THEN MinBrightness
    ELSE IF nits > MaxBrightness THEN MaxBrightness
    ELSE nits

\* uint8(x)
ToUint8(x) == x % 256

\* A variant of PercentToNits that leaves out MinBrightness.
PercentToNitsNoOffset(percent) ==
    LET p == IF percent > 100 THEN 100 ELSE percent
    IN  (p * BrightnessRange) \div 100

\* brightness.PercentToNits: uint32(float64(percent) * float64(BrightnessRange)
\* / 100) + MinBrightness; the quotient is a whole number, exact in float64.
PercentToNits(percent) ==
    LET p == IF percent > 100 THEN 100 ELSE percent
    IN  ClampNits((p * BrightnessRange) \div 100 + MinBrightness)

\* The nits values at which float64(nits-MinBrightness) /
\* float64(BrightnessRange) * 100 comes out just below k + 0.5 although the
\* exact quotient is k + 0.5.
FloatBelowHalf == {9042, 17386, 34074, 34670}

\* brightness.NitsToPercent: uint8(math.Round(percent)), half away from zero
\* on the float64 value.
NitsToPercent(nits) ==
    LET n == ClampNits(nits)
        exact == (2 * (n - MinBrightness) * 100 + BrightnessRange)
                     \div (2 * BrightnessRange)
    IN  ToUint8(IF n \in FloatBelowHalf THEN exact - 1 ELSE exact)

\* The brightness values the device is found with: one per percent, a value
\* below and one above the range, and one where the float quotient is inexact.
DeviceNits == {PercentToNits(p) : p \in 0..100} \cup {0, 9042, 65535}

InitDevice == device = [s \in Serials |-> MinBrightness]

\* The display the brightness calls are made on.
BrightSerial == "A"

\* The brightness and step arguments explored: every value up to the bound,
\* and for brightness two values that do not fit uint8.
MaxBrightnessArg == 105
MaxStepArg == 101
BrightnessArgsAll == 0..MaxBrightnessArg \cup {306, 65586}
StepArgsAll == 0..MaxStepArg

\* The call is the first rate-limited call since the server started: the
\* bucket is full and the device is as the initial state drew it.
FirstCall == allowLog = <<>>

\* What display.GetBrightness returns when the transport succeeds.
DisplayGetBrightness(serial) == NitsToPercent(device[serial])

\* The device after the call of rec: display.SetBrightness(uint8(percent))
\* sends PercentToNits(percent), and a report that was sent with success is
\* what the device holds.
DeviceAfter(rec) ==
    IF rec.ret = Ok /\ rec.writes # <<>>
      THEN [device EXCEPT ![rec.writes[1][1]] =
                               PercentToNits(ToUint8(rec.writes[1][2]))]
      ELSE device

\* Server.SetBrightness on a working device.
BrightnessSet ==
    /\ FirstCall
    /\ \E brightness \in BrightnessArgsAll :
         LET rec == SetBrightnessResult(BrightSerial, brightness, Ok)
         IN  RpcReturn(rec) /\ device' = DeviceAfter(rec)

\* Server.IncreaseBrightness / DecreaseBrightness on a working device.
BrightnessStep(op) ==
    /\ FirstCall
    /\ \E step \in StepArgsAll :
         LET rec == StepBrightnessResult(op, BrightSerial, step,
                                         DisplayGetBrightness(BrightSerial),
                                         Ok, Ok)
         IN  RpcReturn(rec) /\ device' = DeviceAfter(rec)

\* Server.GetBrightness on a working device.
BrightnessGet ==
    /\ RpcReturn(GetBrightnessResult(BrightSerial,
                                     DisplayGetBrightness(BrightSerial), Ok))
    /\ UNCHANGED device

NextBrightness ==
    /\ \/ BrightnessSet
       \/ BrightnessStep("IncreaseBrightness")
       \/ BrightnessStep("DecreaseBrightness")
       \/ BrightnessGet
    /\ UNCHANGED <<displayVars, mgrVars, coordVars, monVars, extVars, inc>>

(***************************************************************************)
(* Coordinator: the handlers of cmd/asd-brightness-daemon/main.go          *)
(***************************************************************************)
\* One invocation at a time of each handler: the hot-plug handler runs on the
\* monitor's goroutine, the other two on goroutines of their own.
CTasks == {"hotplug", "recovery", "deviceError"}

EventTypes == {"add", "remove"}

\* refreshDisplaysWithRetry(manager, 3) and (manager, 5)
hotplugMaxRetries == 3
recoveryMaxRetries == 5

\* A variant of the handlers that calls refreshDisplaysWithRetry(manager, 0).
MaxRetriesNone(t) == 0

MaxRetries(t) == IF t = "hotplug" THEN hotplugMaxRetries ELSE recoveryMaxRetries

\* maxBackoffDuration = 16 * time.Second, and the two settle sleeps, in ms
maxBackoffDuration == 16000
hotplugSettle == 500
recoverySettle == 2000

\* The locals of a handler invocation; diffed tells that diffDisplays was
\* called, emitted lists the EmitDisplayAdded / EmitDisplayRemoved calls made
\* and sent the signals that went out on the bus. tries counts the calls of
\* manager.RefreshDisplays() made so far, anyFailed tells whether one of
\* them returned an error, lastFailed whether the latest one did, slept lists the
\* time.Sleep calls made so far, in ms.
IdleTask == [pc |-> "idle", event |-> "none", oldDisplays |-> {},
             attempt |-> 0, lastErr |-> FALSE, found |-> FALSE,
             newDisplays |-> {}, diffed |-> FALSE,
             added |-> {}, removed |-> {}, emitted |-> <<>>, sent |-> <<>>,
             tries |-> 0, anyFailed |-> FALSE, lastFailed |-> FALSE,
             slept |-> <<>>]

InitCoord ==
    /\ refreshMu = NoThread
    /\ coord = [t \in CTasks |-> IdleTask]
    /\ announced = Keys(displays)

mgrRest == <<mmu, mpc, mop, mret, mgrLocals, lastRun>>

\* The handler is called: by the monitor with an event, by processEvents
\* after a netlink overflow, or by Server.handleDeviceError.
CoordCall(t) ==
    /\ coord[t].pc = "idle"
    /\ \E ev \in (IF t = "hotplug" THEN EventTypes ELSE {"none"}) :
         coord' = [coord EXCEPT ![t] = [@ EXCEPT !.pc = "lock", !.event = ev]]
    /\ UNCHANGED <<refreshMu, displays, handles, announced>>

\* A variant of the handlers that does not wait for refreshMu.
RefreshMuFreeAlways == TRUE

\* refreshMu.Lock() can be taken.
RefreshMuFree == refreshMu = NoThread

\* refreshMu.Lock()
CoordLock(t) ==
    /\ coord[t].pc = "lock"
    /\ RefreshMuFree
    /\ refreshMu' = t
    /\ coord' = [coord EXCEPT ![t] = [@ EXCEPT !.pc = "snapshot"]]
    /\ UNCHANGED <<displays, handles, announced>>

\* getDisplaysSnapshot(manager): the serials of the map.
GetDisplaysSnapshot(m) == Keys(m)

\* The handler sleeps before it refreshes: the hot-plug handler on an add
\* event, the recovery handler always.
Settles(t) == t = "recovery" \/ (t = "hotplug" /\ coord[t].event = "add")

\* oldDisplays := getDisplaysSnapshot(manager)
CoordSnapshot(t) ==
    /\ coord[t].pc = "snapshot"
    /\ coord' = [coord EXCEPT ![t] =
                    [@ EXCEPT !.oldDisplays = GetDisplaysSnapshot(displays),
                              !.pc = IF Settles(t) THEN "settle" ELSE "refresh"]]
    /\ UNCHANGED <<refreshMu, displays, handles, announced>>

\* time.Sleep(500 * time.Millisecond) / time.Sleep(2 * time.Second)
CoordSettle(t) ==
    /\ coord[t].pc = "settle"
    /\ coord' = [coord EXCEPT ![t] =
                    [@ EXCEPT !.pc = "refresh",
                              !.slept = Append(@, IF t = "hotplug"
                                                    THEN hotplugSettle
                                                    ELSE recoverySettle)]]
    /\ UNCHANGED <<refreshMu, displays, handles, announced>>

\* The map after a manager.RefreshDisplays() that returned nil: current is
\* the set of enumerated serials, fails the serials whose open failed.
RefreshedDisplays(m, current, fails) ==
    [s \in Serials |->
        IF s \in ToRemove(m, current) THEN "none"
        ELSE IF s \in current /\ NeedsOpen(m, s) /\ s \notin fails THEN "open"
        ELSE m[s]]

\* manager.RefreshDisplays() as the handlers see it: it runs under the
\* Manager's mutex and no one else changes the map.
ManagerRefreshDisplays(current, fails) ==
    /\ displays' = RefreshedDisplays(displays, current, fails)
    /\ handles' = [s \in Serials |->
                      IF displays'[s] = displays[s] THEN handles[s]
                      ELSE IF displays'[s] = "open" THEN handles[s] + 1
                      ELSE IF displays[s] = "open" THEN handles[s] - 1
                      ELSE handles[s]]

\* A variant of the loop that never clears lastErr.
AfterAttemptKeepsErr(t, err, any) ==
    LET c == coord[t]
    IN  IF ~err /\ any
          THEN [c EXCEPT !.pc = "check", !.found = TRUE, !.lastErr = FALSE]
        ELSE IF c.attempt + 1 > MaxRetries(t)
          THEN [c EXCEPT !.pc = "check", !.attempt = @ + 1,
                         !.lastErr = @ \/ err]
        ELSE [c EXCEPT !.pc = "backoff", !.attempt = @ + 1,
                       !.lastErr = @ \/ err]

\* The loop of refreshDisplaysWithRetry after an attempt: err is what
\* RefreshDisplays returned, any is manager.Count() > 0. lastErr holds the
\* error the function returns once pc is "check".
AfterAttempt(t, err, any) ==
    LET c == coord[t]
    IN  IF ~err /\ any
          THEN [c EXCEPT !.pc = "check", !.found = TRUE, !.lastErr = FALSE]
        ELSE IF c.attempt + 1 > MaxRetries(t)
          THEN [c EXCEPT !.pc = "check", !.attempt = @ + 1, !.lastErr = err]
        ELSE [c EXCEPT !.pc = "backoff", !.attempt = @ + 1, !.lastErr = err]

\* The record of a handler after a call of manager.RefreshDisplays() that
\* returned err.
Attempted(c, err) ==
    [c EXCEPT !.tries = @ + 1,
              !.anyFailed = @ \/ err,
              !.lastFailed = err]

\* One attempt of refreshDisplaysWithRetry (hot-plug and recovery handlers).
RetryRefresh(t) ==
    /\ t # "deviceError"
    /\ coord[t].pc = "refresh"
    /\ \/ /\ UNCHANGED <<displays, handles>>
          /\ coord' = [coord EXCEPT
                          ![t] = Attempted(AfterAttempt(t, TRUE, FALSE), TRUE)]
       \/ \E current \in SUBSET Serials :
            \E fails \in SUBSET (current \ Keys(displays)) :
                /\ ManagerRefreshDisplays(current, fails)
                /\ coord' = [coord EXCEPT
                                ![t] = Attempted(AfterAttempt(t, FALSE,
                                                     Keys(displays') # {}),
                                                 FALSE)]
    /\ UNCHANGED <<refreshMu, announced>>

\* A variant of the backoff that shifts by the attempt number.
BackoffFromAttempt(attempt) ==
    IF 2^attempt * 1000 > maxBackoffDuration
      THEN maxBackoffDuration ELSE 2^attempt * 1000

\* backoff := time.Duration(1<<uint(attempt-1)) * time.Second, capped at
\* maxBackoffDuration; in ms.
Backoff(attempt) ==
    IF 2^(attempt - 1) * 1000 > maxBackoffDuration
      THEN maxBackoffDuration ELSE 2^(attempt - 1) * 1000

\* time.Sleep(backoff)
CoordBackoff(t) ==
    /\ coord[t].pc = "backoff"
    /\ coord' = [coord EXCEPT ![t] =
                    [@ EXCEPT !.pc = "refresh",
                              !.slept = Append(@, Backoff(coord[t].attempt))]]
    /\ UNCHANGED <<refreshMu, displays, handles, announced>>

\* The device-error handler's single manager.RefreshDisplays(): on error
\* return.
DeviceErrorRefresh(t) ==
    /\ t = "deviceError"
    /\ coord[t].pc = "refresh"
    /\ \/ /\ UNCHANGED <<displays, handles>>
          /\ coord' = [coord EXCEPT ![t] = [@ EXCEPT !.pc = "unlock",
                                                     !.lastErr = TRUE]]
       \/ \E current \in SUBSET Serials :
            \E fails \in SUBSET (current \ Keys(displays)) :
                /\ ManagerRefreshDisplays(current, fails)
                /\ coord' = [coord EXCEPT ![t] = [@ EXCEPT !.pc = "diff"]]
    /\ UNCHANGED <<refreshMu, announced>>

\* A variant of the early returns that returns whenever no display was
\* found.
ReturnsEarlyWheneverNotFound(c) == c.lastErr \/ ~c.found

\* if err != nil { return }; if !found && len(oldDisplays) == 0 { return }
ReturnsEarly(c) == c.lastErr \/ (~c.found /\ c.oldDisplays = {})

\* The handler after refreshDisplaysWithRetry returned.
CoordCheck(t) ==
    /\ coord[t].pc = "check"
    /\ coord' = [coord EXCEPT ![t] =
                    [@ EXCEPT !.pc = IF ReturnsEarly(coord[t])
                                       THEN "unlock" ELSE "diff"]]
    /\ UNCHANGED <<refreshMu, displays, handles, announced>>

\* A variant of diffDisplays that reports every display of the new snapshot
\* as added.
DiffDisplaysAddsAll(old, new) == [added |-> new, removed |-> old \ new]

\* diffDisplays(oldDisplays, newDisplays)
DiffDisplays(old, new) == [added |-> new \ old, removed |-> old \ new]

\* newDisplays := getDisplaysSnapshot(manager); changes := diffDisplays(...)
CoordDiff(t) ==
    /\ coord[t].pc = "diff"
    /\ LET changes == DiffDisplays(coord[t].oldDisplays,
                                   GetDisplaysSnapshot(displays))
       IN  coord' = [coord EXCEPT ![t] =
                        [@ EXCEPT !.newDisplays = GetDisplaysSnapshot(displays),
                                  !.diffed = TRUE,
                                  !.added = changes.added,
                                  !.removed = changes.removed,
                                  !.pc = IF changes.added \cup changes.removed = {}
                                           THEN "unlock" ELSE "emit"]]
    /\ UNCHANGED <<refreshMu, displays, handles, announced>>

\* server.EmitDisplayAdded / EmitDisplayRemoved: nothing is sent when s.conn
\* is nil.
EmitDisplaySignal(name, serial) ==
    IF conn THEN << <<name, serial>> >> ELSE <<>>

\* A variant of emitDisplayChanges that starts with the removed displays.
RemovedFirst(c) == c.removed = {}

\* emitDisplayChanges ranges over changes.added, then over changes.removed:
\* the next call is an EmitDisplayAdded.
AddedFirst(c) == c.added # {}

\* The display set of a listener on the bus that held view and then handled
\* the signals of sent from position k on.
RECURSIVE Applied(_, _, _)
Applied(view, sent, k) ==
    IF k > Len(sent) THEN view
    ELSE Applied(IF sent[k][1] = "DisplayAdded"
                   THEN view \cup {sent[k][2]}
                   ELSE view \ {sent[k][2]}, sent, k + 1)

\* emitDisplayChanges: one call of EmitDisplayAdded, or, when every added
\* display is done, of EmitDisplayRemoved.
CoordEmit(t) ==
    /\ coord[t].pc = "emit"
    /\ LET c == coord[t]
       IN  IF AddedFirst(c)
             THEN \E s \in c.added :
                    coord' = [coord EXCEPT ![t] =
                        [@ EXCEPT !.added = @ \ {s},
                                  !.emitted = Append(@, <<"DisplayAdded", s>>),
                                  !.sent = @ \o EmitDisplaySignal("DisplayAdded", s),
                                  !.pc = IF (c.added \ {s}) \cup c.removed = {}
                                           THEN "unlock" ELSE "emit"]]
             ELSE \E s \in c.removed :
                    coord' = [coord EXCEPT ![t] =
                        [@ EXCEPT !.removed = @ \ {s},
                                  !.emitted = Append(@, <<"DisplayRemoved", s>>),
                                  !.sent = @ \o EmitDisplaySignal("DisplayRemoved", s),
                                  !.pc = IF (c.added \ {s}) \cup (c.removed \ {s}) = {}
                                           THEN "unlock" ELSE "emit"]]
    /\ announced' = Applied(announced, coord'[t].sent, Len(coord[t].sent) + 1)
    /\ UNCHANGED <<refreshMu, displays, handles>>

\* defer refreshMu.Unlock(): the handler returns.
CoordUnlock(t) ==
    /\ coord[t].pc = "unlock"
    /\ refreshMu' = IF refreshMu = t THEN NoThread ELSE refreshMu
    /\ coord' = [coord EXCEPT ![t] = IdleTask]
    /\ UNCHANGED <<displays, handles, announced>>

NextCoord ==
    \/ /\ \E t \in CTasks :
            \/ CoordCall(t)
            \/ CoordLock(t)
            \/ CoordSnapshot(t)
            \/ CoordSettle(t)
            \/ RetryRefresh(t)
            \/ CoordBackoff(t)
            \/ DeviceErrorRefresh(t)
            \/ CoordCheck(t)
            \/ CoordDiff(t)
            \/ CoordEmit(t)
            \/ CoordUnlock(t)
       /\ UNCHANGED <<displayVars, mgrRest, srvVars, device, monVars, extVars, inc>>
    \/ /\ ServerStop
       /\ UNCHANGED <<displayVars, mgrVars, device, coordVars, monVars, extVars, inc>>

(***************************************************************************)
(* udev.Monitor                                                            *)
(***************************************************************************)
\* removeEventDebounce and the age at which shouldDebounceRemove drops an
\* entry of m.lastRemoveTime, in ms.
removeEventDebounce == 500
staleAfter == 60000

\* The clock advances in steps of MonTickMs, at most MaxMonTicks times, and
\* MaxEvents uevents are handled.
MonTickMs == 250
MaxMonTicks == 3
MaxEvents == 3

Products == {"5ac/1114/157", "5ac/1114/158"}

\* The uevents explored: add with each DEVTYPE ("" is a missing or empty
\* DEVTYPE), remove with each DEVTYPE and PRODUCT, and two other actions.
MonitorEvents ==
    [action : {"add"}, devtype : {"", "usb_device", "usb_interface"},
     product : {"5ac/1114/157"}]
    \cup [action : {"remove"}, devtype : {"", "usb_device", "usb_interface"},
          product : Products]
    \cup [action : {"change", "bind"}, devtype : {"usb_device"},
          product : {"5ac/1114/157"}]

\* No entry in m.lastRemoveTime.
NoTime == 0 - 1

\* NewMonitor
InitMonitor ==
    /\ lastRemoveTime = [p \in Products |-> NoTime]
    /\ mnow = 0
    /\ mlog = <<>>

\* A variant of the ADD filter that lets every DEVTYPE through.
RejectsAddNever(ev) == FALSE

\* if uevent.Action == netlink.ADD && devtype != "usb_device" { return }
RejectsAdd(ev) == ev.action = "add" /\ ev.devtype # "usb_device"

\* A variant of shouldDebounceRemove that never debounces.
ShouldDebounceRemoveNever(product) == FALSE

\* m.shouldDebounceRemove(product): its result.
ShouldDebounceRemove(product) ==
    /\ lastRemoveTime[product] # NoTime
    /\ mnow - lastRemoveTime[product] < removeEventDebounce

\* m.shouldDebounceRemove(product): m.lastRemoveTime when it returns false,
\* the entry of product set to now and the stale entries deleted.
RemoveRecorded(product) ==
    LET updated == [lastRemoveTime EXCEPT ![product] = mnow]
    IN  [p \in Products |->
            IF updated[p] # NoTime /\ mnow - updated[p] > staleAfter
              THEN NoTime ELSE updated[p]]

\* A variant in which a debounced REMOVE records its time as well.
LastRemoveTimeAfterAnyRemove(ev) ==
    IF ev.action = "remove" THEN RemoveRecorded(ev.product) ELSE lastRemoveTime

\* m.lastRemoveTime after handleEvent(uevent): shouldDebounceRemove is called
\* for a REMOVE that passed the ADD filter, and returns before the update
\* when it debounces.
LastRemoveTimeAfter(ev) ==
    IF ev.action = "remove" /\ ~ShouldDebounceRemove(ev.product)
      THEN RemoveRecorded(ev.product)
      ELSE lastRemoveTime

\* The event m.handler is called with, or "none".
Delivered(ev) ==
    IF RejectsAdd(ev) THEN "none"
    ELSE IF ev.action = "remove" /\ ShouldDebounceRemove(ev.product) THEN "none"
    ELSE IF ev.action = "add" THEN "Add"
    ELSE IF ev.action = "remove" THEN "Remove"
    ELSE "none"

\* m.handleEvent(uevent)
HandleEvent(ev) ==
    /\ Len(mlog) < MaxEvents
    /\ mlog' = Append(mlog, [action |-> ev.action, devtype |-> ev.devtype,
                             product |-> ev.product, t |-> mnow,
                             delivered |-> Delivered(ev)])
    /\ lastRemoveTime' = LastRemoveTimeAfter(ev)
    /\ UNCHANGED mnow

\* Time passes.
MonitorTick ==
    /\ mnow < MaxMonTicks * MonTickMs
    /\ mnow' = mnow + MonTickMs
    /\ UNCHANGED <<lastRemoveTime, mlog>>

NextMonitor ==
    /\ \/ \E ev \in MonitorEvents : HandleEvent(ev)
       \/ MonitorTick
    /\ UNCHANGED <<displayVars, mgrVars, srvVars, device, coordVars, extVars, inc>>

(***************************************************************************)
(* The uevent matcher built by Monitor.createMatcher                       *)
(***************************************************************************)
\* Strings are sequences of characters, so that the regular expressions of
\* the rules are matched character by character.
Slash == "/"

\* One element of a regular expression: a character class (negated or not)
\* with its quantifier: "1" (exactly one), "?" (optional), "+" (one or more).
One(cs) == [chars |-> cs, neg |-> FALSE, q |-> "1"]
Opt(cs) == [chars |-> cs, neg |-> FALSE, q |-> "?"]
PlusNot(cs) == [chars |-> cs, neg |-> TRUE, q |-> "+"]

\* The elements of a literal.
Literal(str) == [i \in 1..Len(str) |-> One({str[i]})]

\* AppleVendorIDPattern = "0?5[aA][cC]"
AppleVendorIDPattern == <<Opt({"0"}), One({"5"}), One({"a", "A"}), One({"c", "C"})>>

\* StudioDisplayProductID = "1114"
StudioDisplayProductID == <<"1", "1", "1", "4">>

\* A variant of productPattern without the anchors.
productPatternUnanchored ==
    [start |-> FALSE, end |-> FALSE,
     items |-> AppleVendorIDPattern \o <<One({Slash})>>
               \o Literal(StudioDisplayProductID) \o <<One({Slash})>>
               \o <<PlusNot({Slash})>>]

\* productPattern := fmt.Sprintf("^%s/%s/[^/]+$", AppleVendorIDPattern,
\*                               StudioDisplayProductID)
productPattern ==
    [start |-> TRUE, end |-> TRUE,
     items |-> AppleVendorIDPattern \o <<One({Slash})>>
               \o Literal(StudioDisplayProductID) \o <<One({Slash})>>
               \o <<PlusNot({Slash})>>]

\* "^usb$"
subsystemPattern ==
    [start |-> TRUE, end |-> TRUE, items |-> Literal(<<"u", "s", "b">>)]

\* addAction := "add" and removeAction := "remove": the rule's Action is
\* compiled as a regular expression too, and has no anchors.
addAction ==
    [start |-> FALSE, end |-> FALSE, items |-> Literal(<<"a", "d", "d">>)]
removeAction ==
    [start |-> FALSE, end |-> FALSE,
     items |-> Literal(<<"r", "e", "m", "o", "v", "e">>)]

\* The character c is in the class of the element it.
Accepts(it, c) == IF it.neg THEN c \notin it.chars ELSE c \in it.chars

\* The elements k.. of items match str from position j on (up to the end of
\* str when the expression ends with $).
RECURSIVE MatchAt(_, _, _, _, _)
MatchAt(items, k, str, j, end) ==
    IF k > Len(items) THEN (~end \/ j > Len(str))
    ELSE
      LET it == items[k]
          here == j <= Len(str) /\ Accepts(it, str[j])
      IN  CASE it.q = "1" -> here /\ MatchAt(items, k + 1, str, j + 1, end)
            [] it.q = "?" ->
                 \/ here /\ MatchAt(items, k + 1, str, j + 1, end)
                 \/ MatchAt(items, k + 1, str, j, end)
            [] it.q = "+" ->
                 here /\ (\/ MatchAt(items, k + 1, str, j + 1, end)
                          \/ MatchAt(items, k, str, j + 1, end))

\* regexp.MatchString: the expression matches somewhere in str, at its
\* first character when the expression starts with ^.
MatchString(re, str) ==
    \E j \in 1..(IF re.start THEN 1 ELSE Len(str) + 1) :
        MatchAt(re.items, 1, str, j, re.end)

\* The two rules createMatcher adds.
Rules ==
    <<[Action |-> addAction, SUBSYSTEM |-> subsystemPattern,
       PRODUCT |-> productPattern],
      [Action |-> removeAction, SUBSYSTEM |-> subsystemPattern,
       PRODUCT |-> productPattern]>>

\* A rule matches a uevent when its Action and each of its Env expressions
\* match.
RuleMatches(rule, ev) ==
    /\ MatchString(rule.Action, ev.action)
    /\ MatchString(rule.SUBSYSTEM, ev.subsystem)
    /\ MatchString(rule.PRODUCT, ev.product)

\* matcher.Evaluate(uevent): some rule matches.
Evaluate(ev) == \E i \in 1..Len(Rules) : RuleMatches(Rules[i], ev)

\* The uevents given to the matcher.  The actions are those of the kernel.
MatcherActions ==
    {<<"a", "d", "d">>, <<"r", "e", "m", "o", "v", "e">>,
     <<"c", "h", "a", "n", "g", "e">>, <<"m", "o", "v", "e">>,
     <<"b", "i", "n", "d">>, <<"u", "n", "b", "i", "n", "d">>,
     <<"o", "n", "l", "i", "n", "e">>, <<"o", "f", "f", "l", "i", "n", "e">>}

MatcherSubsystems ==
    {<<"u", "s", "b">>, <<"b", "l", "o", "c", "k">>,
     <<"u", "s", "b", "m", "i", "s", "c">>, <<"h", "i", "d">>}

\* The vendor, product id and rest of the PRODUCT values explored.
VendorTexts ==
    {<<"5", "a", "c">>, <<"0", "5", "a", "c">>, <<"5", "A", "C">>,
     <<"5", "A", "c">>, <<"0", "5", "A", "C">>, <<"5", "a", "C">>,
     <<"0", "5", "a", "C">>, <<"0", "5", "A", "c">>,
     <<"1", "2", "3", "4">>, <<"0", "0", "5", "a", "c">>, <<"5", "a">>,
     <<>>, <<"5", "a", "c", "c">>, <<"1", "5", "a", "c">>,
     <<"5", "b", "c">>, <<"0">>}

ProductIdTexts ==
    {<<"1", "1", "1", "4">>, <<"8", "2", "8", "6">>,
     <<"1", "1", "1", "4", "9">>, <<"1", "1", "1">>,
     <<"0", "1", "1", "1", "4">>, <<>>}

RestTexts ==
    {<<"/", "1", "5", "7">>, <<"/", "1", "0", "0">>, <<"/", "1">>, <<>>,
     <<"/">>, <<"/", "1", "/", "2">>, <<"/", "1", "5", "7", "/">>,
     <<"1", "5", "7">>, <<"/", "/", "1">>}

\* Every PRODUCT explored, and the ones explored with every action and
\* subsystem.
ProductTexts ==
    {v \o <<Slash>> \o p \o r :
        v \in VendorTexts, p \in ProductIdTexts, r \in RestTexts}

SampleProductTexts ==
    {<<"5", "a", "c">> \o <<Slash>> \o p \o r :
        p \in {<<"1", "1", "1", "4">>, <<"8", "2", "8", "6">>},
        r \in {<<"/", "1", "5", "7">>, <<>>}}

MatcherEvents ==
    {[action |-> a, subsystem |-> <<"u", "s", "b">>, product |-> pr] :
        a \in {<<"a", "d", "d">>, <<"r", "e", "m", "o", "v", "e">>},
        pr \in ProductTexts}
    \cup {[action |-> a, subsystem |-> sub, product |-> pr] :
        a \in MatcherActions, sub \in MatcherSubsystems,
        pr \in SampleProductTexts}

NoEvaluation == [action |-> <<>>, subsystem |-> <<>>, product |-> <<>>,
                 result |-> FALSE]

InitMatcher == evaluated = NoEvaluation

\* The netlink connection evaluates the matcher on the first uevent it read.
MatcherEvaluate(ev) ==
    /\ evaluated = NoEvaluation
    /\ evaluated' = [action |-> ev.action, subsystem |-> ev.subsystem,
                     product |-> ev.product, result |-> Evaluate(ev)]

NextMatcher ==
    /\ \E ev \in MatcherEvents : MatcherEvaluate(ev)
    /\ UNCHANGED <<displayVars, mgrVars, srvVars, device, coordVars, monVars,
                   lifeVars, run, emitVars, lastDiff, cons, getter, toggle, inc>>

(***************************************************************************)
(* udev.Monitor: Start, Stop and the consumer goroutine processEvents      *)
(***************************************************************************)
\* At most MaxMonCalls calls of Start, Stop and SetRecoveryHandler are made,
\* MaxErrs errors are received and MaxHandled uevents are handled.
MaxMonCalls == 3
MaxErrs == 2
MaxHandled == 1

ErrAlreadyStarted == "monitor already started"
ErrConnect == "failed to connect to netlink"
ErrCloseNetlink == "failed to close netlink connection"

\* strings.ToLower, on the letters that occur.
ToLowerChar(c) ==
    CASE c = "N" -> "n" [] c = "B" -> "b" [] c = "S" -> "s" [] c = "A" -> "a"
      [] c = "O" -> "o" [] c = "E" -> "e"
      [] OTHER -> c

ToLower(str) == [i \in 1..Len(str) |-> ToLowerChar(str[i])]

\* strings.Contains
Contains(str, sub) ==
    \E j \in 0..(Len(str) - Len(sub)) : SubSeq(str, j + 1, j + Len(sub)) = sub

NoBufferSpaceText ==
    <<"n", "o", " ", "b", "u", "f", "f", "e", "r", " ", "s", "p", "a", "c",
      "e", " ", "a", "v", "a", "i", "l", "a", "b", "l", "e">>

\* The errors the netlink connection reports: errno is what errors.Is finds
\* in the chain, text is err.Error().
NetlinkErrors ==
    {[errno |-> "ENOBUFS", text |-> NoBufferSpaceText],
     [errno |-> "ENOBUFS", text |-> <<"r", "e", "a", "d">>],
     [errno |-> "none", text |-> <<"r", "e", "a", "d", ":", " ">> \o NoBufferSpaceText],
     [errno |-> "none",
      text |-> <<"N", "o", " ", "B", "u", "f", "f", "e", "r", " ", "S", "p",
                 "a", "c", "e", " ", "A", "v", "a", "i", "l", "a", "b", "l",
                 "e">>],
     [errno |-> "none", text |-> <<"n", "o", " ", "b", "u", "f", "f", "e", "r">>],
     [errno |-> "EBADF", text |-> <<"b", "a", "d", " ", "f", "d">>]}

NoErr == [errno |-> "none", text |-> <<>>]

\* A variant of isBufferOverflowError without the fallback on the message.
IsBufferOverflowErrorByErrno(err) == err.errno = "ENOBUFS"

\* isBufferOverflowError(err)
IsBufferOverflowError(err) ==
    \/ err.errno = "ENOBUFS"
    \/ Contains(ToLower(err.text), NoBufferSpaceText)

\* NewMonitor: no connection, not stopped, no recovery handler, no consumer.
\* closes and quits count the conn.Close() calls and the quit signals sent,
\* handled the uevents given to handleEvent, recoveries the recovery tasks
\* started, starts the Start calls that succeeded and stops the Stop calls
\* made since the last of them.
NewMonitor ==
    [conn |-> FALSE, stopped |-> FALSE, recoveryHandler |-> FALSE,
     pc |-> "none", err |-> NoErr, closes |-> 0, quits |-> 0, handled |-> 0,
     recoveries |-> 0, starts |-> 0, stops |-> 0, calls |-> 0]

NoMonCall == [op |-> "none", ret |-> "none", starts |-> 0, stops |-> 0,
              before |-> <<FALSE, FALSE>>, after |-> <<FALSE, FALSE>>,
              closed |-> 0, quit |-> 0]

InitLife ==
    /\ mon = NewMonitor
    /\ mcall = NoMonCall
    /\ elog = <<>>

\* What a Monitor method call leaves in mcall: m is the Monitor after it.
MonCalled(op, ret, m) ==
    [op |-> op, ret |-> ret, starts |-> mon.starts, stops |-> mon.stops,
     before |-> <<mon.conn, mon.stopped>>, after |-> <<m.conn, m.stopped>>,
     closed |-> m.closes - mon.closes, quit |-> m.quits - mon.quits]

\* m.SetRecoveryHandler(handler), with a handler or nil
MonitorSetRecoveryHandler ==
    /\ mon.calls < MaxMonCalls
    /\ \E h \in BOOLEAN :
         LET m == [mon EXCEPT !.recoveryHandler = h, !.calls = @ + 1]
         IN  /\ mon' = m
             /\ mcall' = MonCalled("SetRecoveryHandler", Ok, m)
    /\ UNCHANGED elog

\* m.Start(): an error when already started or when Connect fails; otherwise
\* the connection is set, stopped is cleared and processEvents is started.
MonitorStart ==
    /\ mon.calls < MaxMonCalls
    /\ IF mon.conn
         THEN LET m == [mon EXCEPT !.calls = @ + 1]
              IN  mon' = m /\ mcall' = MonCalled("Start", ErrAlreadyStarted, m)
         ELSE \E connected \in BOOLEAN :
                IF ~connected
                  THEN LET m == [mon EXCEPT !.calls = @ + 1]
                       IN  mon' = m /\ mcall' = MonCalled("Start", ErrConnect, m)
                  ELSE LET m == [mon EXCEPT !.conn = TRUE, !.stopped = FALSE,
                                            !.pc = "select", !.err = NoErr,
                                            !.starts = @ + 1, !.stops = 0,
                                            !.calls = @ + 1]
                       IN  mon' = m /\ mcall' = MonCalled("Start", Ok, m)
    /\ UNCHANGED elog

\* A variant of Stop's test that only looks at the connection.
StopIsNoopUnlessConnected(m) == ~m.conn

\* if m.conn == nil || m.stopped { return nil }
StopIsNoop(m) == ~m.conn \/ m.stopped

\* m.Stop(): sets stopped, offers the quit signal (taken or not) and closes
\* the connection; m.conn is set to nil when the close succeeded.
MonitorStop ==
    /\ mon.calls < MaxMonCalls
    /\ IF StopIsNoop(mon)
         THEN LET m == [mon EXCEPT !.stops = @ + 1, !.calls = @ + 1]
              IN  mon' = m /\ mcall' = MonCalled("Stop", Ok, m)
         ELSE \E taken \in 0..1, closedOk \in BOOLEAN :
                LET m == [mon EXCEPT !.stopped = TRUE,
                                     !.quits = @ + taken,
                                     !.closes = @ + 1,
                                     !.conn = ~closedOk,
                                     !.stops = @ + 1, !.calls = @ + 1]
                IN  /\ mon' = m
                    /\ mcall' = MonCalled("Stop",
                                    IF closedOk THEN Ok ELSE ErrCloseNetlink, m)
    /\ UNCHANGED elog

\* case event, ok := <-queue: m.handleEvent(event)
ConsumerEvent ==
    /\ mon.pc = "select"
    /\ mon.conn
    /\ mon.handled < MaxHandled
    /\ mon' = [mon EXCEPT !.handled = @ + 1]
    /\ UNCHANGED <<mcall, elog>>

\* case err, ok := <-errs
ConsumerError(err) ==
    /\ mon.pc = "select"
    /\ Len(elog) < MaxErrs
    /\ mon' = [mon EXCEPT !.pc = "gotErr", !.err = err]
    /\ UNCHANGED <<mcall, elog>>

\* The consumer after it received err: it reads stopped and recoveryHandler
\* under m.mu, returns when stopped, starts the recovery handler on an
\* overflow error and goes back to the select.
ConsumerCheck ==
    /\ mon.pc = "gotErr"
    /\ LET starts == IF ~mon.stopped /\ IsBufferOverflowError(mon.err)
                        /\ mon.recoveryHandler THEN 1 ELSE 0
           next == IF mon.stopped THEN "exited" ELSE "select"
       IN  /\ mon' = [mon EXCEPT !.pc = next, !.err = NoErr,
                                 !.recoveries = @ + starts]
           /\ elog' = Append(elog, [err |-> mon.err, stopped |-> mon.stopped,
                                    handler |-> mon.recoveryHandler,
                                    started |-> starts, after |-> next,
                                    handled |-> mon.handled])
    /\ UNCHANGED mcall

NextLife ==
    /\ \/ MonitorSetRecoveryHandler
       \/ MonitorStart
       \/ MonitorStop
       \/ ConsumerEvent
       \/ \E err \in NetlinkErrors : ConsumerError(err)
       \/ ConsumerCheck
    /\ UNCHANGED <<displayVars, mgrVars, srvVars, device, coordVars, monVars,
                   evaluated, run, emitVars, lastDiff, cons, getter, toggle, inc>>

(***************************************************************************)
(* udev.Monitor: processEvents and the hot-plug handler it calls           *)
(***************************************************************************)
\* Accepted uevents and errors the kernel delivers.
MaxArrivals == 3
MaxConsErrs == 1

\* The consumer at its select, both channels empty, no handler in progress.
\* queue holds the uevents received and not yet taken, each with its arrival
\* number; taken lists the arrival numbers in the order the consumer took
\* them; inProgress counts the calls of m.handler that have not returned, hpc
\* is the position of the latest of them and holder the owner of refreshMu.
InitConsumer ==
    cons = [pc |-> "select", queue |-> <<>>, errs |-> 0, arrived |-> 0,
            errors |-> 0, taken |-> <<>>, closed |-> FALSE,
            inProgress |-> 0, hpc |-> "none", event |-> "none", attempt |-> 0,
            holder |-> "none", recovery |-> "none", takenBusy |-> FALSE]

\* The netlink monitor puts an accepted uevent on the queue channel.
UeventArrives(type) ==
    /\ cons.arrived < MaxArrivals
    /\ ~cons.closed
    /\ cons' = [cons EXCEPT !.arrived = @ + 1,
                            !.queue = Append(@, [id |-> cons.arrived + 1,
                                                 type |-> type])]

\* The netlink monitor puts an error on the errs channel.
ErrorArrives ==
    /\ cons.errors < MaxConsErrs
    /\ ~cons.closed
    /\ cons' = [cons EXCEPT !.errors = @ + 1, !.errs = @ + 1]

\* A variant of handleEvent that starts the handler on a goroutine of its
\* own.
HandlerCallDetached == "select"

\* m.handler(Event{Type: eventType}) is an ordinary call: the consumer is in
\* it until it returns.
HandlerCall == "handling"

\* case event, ok := <-queue: m.handleEvent(event), which calls m.handler
\* when the filters let the uevent through.
ConsumerTakeEvent ==
    /\ cons.pc = "select"
    /\ cons.queue # <<>>
    /\ \E through \in BOOLEAN :
         LET ev == Head(cons.queue)
             took == [cons EXCEPT !.queue = Tail(@),
                                  !.taken = Append(@, ev.id),
                                  !.takenBusy = @ \/ cons.inProgress > 0]
         IN  cons' = IF through
                       THEN [took EXCEPT !.pc = HandlerCall,
                                         !.inProgress = @ + 1,
                                         !.hpc = "lock",
                                         !.event = ev.type,
                                         !.attempt = 0]
                       ELSE took

\* refreshMu.Lock() of the hot-plug handler
HandlerLock ==
    /\ cons.hpc = "lock"
    /\ cons.holder = "none"
    /\ cons' = [cons EXCEPT !.holder = "hotplug",
                            !.hpc = IF cons.event = "add" THEN "settle"
                                    ELSE "refresh"]

\* time.Sleep(500 * time.Millisecond) on an add event
HandlerSettle ==
    /\ cons.hpc = "settle"
    /\ cons' = [cons EXCEPT !.hpc = "refresh"]

\* One attempt of refreshDisplaysWithRetry(manager, 3): it returns, or the
\* handler sleeps and tries again.
HandlerRefresh ==
    /\ cons.hpc = "refresh"
    /\ \E done \in BOOLEAN :
         cons' = IF done \/ cons.attempt >= hotplugMaxRetries
                   THEN [cons EXCEPT !.hpc = "emit"]
                   ELSE [cons EXCEPT !.attempt = @ + 1]

\* emitDisplayChanges, the deferred refreshMu.Unlock() and the return of the
\* handler to handleEvent and to the select of processEvents.
HandlerReturn ==
    /\ cons.hpc = "emit"
    /\ cons' = [cons EXCEPT !.hpc = "none", !.holder = "none",
                            !.event = "none", !.attempt = 0,
                            !.inProgress = @ - 1,
                            !.pc = IF @ = "handling" THEN "select" ELSE @]

\* case err, ok := <-errs, for a buffer overflow with a recovery handler set:
\* go recoveryHandler(), continue.
ConsumerTakeError ==
    /\ cons.pc = "select"
    /\ cons.errs > 0
    /\ cons' = [cons EXCEPT !.errs = @ - 1,
                            !.takenBusy = @ \/ cons.inProgress > 0,
                            !.recovery = IF @ = "none" THEN "lock" ELSE @]

\* The recovery handler on its own goroutine: refreshMu.Lock(), its work,
\* refreshMu.Unlock().
RecoveryStep ==
    \/ /\ cons.recovery = "lock"
       /\ cons.holder = "none"
       /\ cons' = [cons EXCEPT !.holder = "recovery", !.recovery = "work"]
    \/ /\ cons.recovery = "work"
       /\ cons' = [cons EXCEPT !.holder = "none", !.recovery = "none"]

\* Monitor.Stop closes the connection; the consumer finds its channels
\* closed at the select and returns.
ChannelsClose ==
    /\ ~cons.closed
    /\ cons' = [cons EXCEPT !.closed = TRUE]

ConsumerExit ==
    /\ cons.pc = "select"
    /\ cons.closed
    /\ cons' = [cons EXCEPT !.pc = "exited"]

NextConsumer ==
    /\ \/ \E type \in EventTypes : UeventArrives(type)
       \/ ErrorArrives
       \/ ConsumerTakeEvent
       \/ HandlerLock
       \/ HandlerSettle
       \/ HandlerRefresh
       \/ HandlerReturn
       \/ ConsumerTakeError
       \/ RecoveryStep
       \/ ChannelsClose
       \/ ConsumerExit
    /\ UNCHANGED <<displayVars, mgrVars, srvVars, device, coordVars, monVars,
                   evaluated, lifeVars, run, emitVars, lastDiff, getter, toggle,
                   inc>>

(***************************************************************************)
(* run: start of the monitor, the shutdown signal and the teardown         *)
(***************************************************************************)
\* The handlers run starts on goroutines of their own.
RecoveryTasks == {"recovery", "deviceError"}

ErrBusClose == "failed to close the bus connection"

\* run after server.Start() and SetDeviceErrorHandler: it is about to start
\* the monitor.  log lists the teardown steps made, each with its result.
InitRun == run = [pc |-> "start", log |-> <<>>]

\* monitor.Start(): a failure is logged and run goes on.
RunStartMonitor ==
    /\ run.pc = "start"
    /\ MonitorStart
    /\ run' = [run EXCEPT !.pc = "wait"]
    /\ UNCHANGED <<displayVars, mgrVars, srvVars, device, coordVars, monVars,
                   evaluated, emitVars, lastDiff, cons, getter, toggle, inc>>

\* <-sigChan
ShutdownSignal ==
    /\ run.pc = "wait"
    /\ run' = [run EXCEPT !.pc = "teardown"]
    /\ UNCHANGED <<displayVars, mgrVars, srvVars, device, coordVars, monVars,
                   evaluated, lifeVars, emitVars, lastDiff, cons, getter, toggle, inc>>

\* A variant of the teardown that gives up at the first error.
TeardownStopsOnError(ret, n) ==
    IF n = 3 \/ ret # Ok THEN "done" ELSE "teardown"

\* The teardown goroutine after its n-th step returned ret: an error is
\* logged, and close(shutdownDone) follows the third step.
TeardownNext(ret, n) == IF n = 3 THEN "done" ELSE "teardown"

Stepped(name, ret) ==
    [run EXCEPT !.log = Append(@, <<name, ret>>),
                !.pc = TeardownNext(ret, Len(run.log) + 1)]

\* if err := monitor.Stop(); err != nil { log }
TeardownMonitorStop ==
    /\ run.pc = "teardown"
    /\ Len(run.log) = 0
    /\ MonitorStop
    /\ run' = Stepped("Monitor.Stop", mcall'.ret)
    /\ UNCHANGED <<displayVars, mgrVars, srvVars, device, coordVars, monVars,
                   evaluated, emitVars, lastDiff, cons, getter, toggle, inc>>

\* if err := server.Stop(); err != nil { log }: Stop returns what
\* conn.Close() returns.
TeardownServerStop ==
    /\ run.pc = "teardown"
    /\ Len(run.log) = 1
    /\ ServerStop
    /\ \E ret \in {Ok, ErrBusClose} : run' = Stepped("Server.Stop", ret)
    /\ UNCHANGED <<displayVars, mgrVars, device, coordVars, monVars,
                   evaluated, lifeVars, emitVars, lastDiff, cons, getter, toggle, inc>>

\* if err := manager.Close(); err != nil { log }: every Display of the map
\* is closed and deleted, and Close returns nil.
TeardownManagerClose ==
    /\ run.pc = "teardown"
    /\ Len(run.log) = 2
    /\ displays' = NoDisplays
    /\ handles' = [s \in Serials |-> 0]
    /\ run' = Stepped("Manager.Close", Ok)
    /\ UNCHANGED <<displayVars, mgrRest, srvVars, device, coordVars, monVars,
                   evaluated, lifeVars, emitVars, lastDiff, cons, getter, toggle, inc>>

\* case <-ctx.Done(): run returns while the teardown goroutine is at work.
ShutdownTimeout ==
    /\ run.pc = "teardown"
    /\ run' = [run EXCEPT !.pc = "exited"]
    /\ UNCHANGED <<displayVars, mgrVars, srvVars, device, coordVars, monVars,
                   evaluated, lifeVars, emitVars, lastDiff, cons, getter, toggle, inc>>

\* case <-shutdownDone: run returns and the process ends.
RunReturn ==
    /\ run.pc = "done"
    /\ run' = [run EXCEPT !.pc = "exited"]
    /\ UNCHANGED <<displayVars, mgrVars, srvVars, device, coordVars, monVars,
                   evaluated, lifeVars, emitVars, lastDiff, cons, getter, toggle, inc>>

\* The recovery and device-error handlers are started while run waits for
\* the signal, and their goroutines run until the process ends.
RecoveryTaskStep ==
    /\ run.pc # "exited"
    /\ \E t \in RecoveryTasks :
          \/ run.pc = "wait" /\ CoordCall(t)
          \/ CoordLock(t)
          \/ CoordSnapshot(t)
          \/ CoordSettle(t)
          \/ RetryRefresh(t)
          \/ CoordBackoff(t)
          \/ DeviceErrorRefresh(t)
          \/ CoordCheck(t)
          \/ CoordDiff(t)
          \/ CoordEmit(t)
          \/ CoordUnlock(t)
    /\ UNCHANGED <<displayVars, mgrRest, srvVars, device, monVars, extVars, inc>>

NextShutdown ==
    \/ RunStartMonitor
    \/ ShutdownSignal
    \/ TeardownMonitorStop
    \/ TeardownServerStop
    \/ TeardownManagerClose
    \/ ShutdownTimeout
    \/ RunReturn
    \/ RecoveryTaskStep

(***************************************************************************)
(* dbus.Server: signal emission next to Start and Stop                     *)
(***************************************************************************)
EThreads == {"e1", "e2"}
SThreads == {"s1", "s2"}

Signals == {"DisplayAdded", "DisplayRemoved", "BrightnessChanged"}

\* A goroutine that calls an emit method: local is its copy of s.conn (not
\* nil), sent tells that conn.Emit put the signal on the bus and failed
\* that the call panicked.
IdleEmitter == [pc |-> "idle", signal |-> "none", local |-> FALSE,
                sent |-> FALSE, failed |-> FALSE]

\* A goroutine that calls Stop: local is its copy of s.conn (not nil).
IdleStopper == [pc |-> "idle", local |-> FALSE, ret |-> "none"]

\* No call is under way and connMu is free; bus tells whether Start has run
\* and whether the connection it made is still open.
InitEmitters ==
    /\ emitter = [t \in EThreads |-> IdleEmitter]
    /\ stopper = [t \in SThreads |-> IdleStopper]
    /\ connMu = [writer |-> NoThread, readers |-> {}]
    /\ bus = [started |-> conn, open |-> conn]

\* Server.Start(): on success s.conn is set under connMu.
ServerStart ==
    /\ ~bus.started
    /\ connMu = [writer |-> NoThread, readers |-> {}]
    /\ \E ok \in BOOLEAN :
         /\ bus' = [started |-> TRUE, open |-> ok]
         /\ conn' = ok
    /\ UNCHANGED <<emitter, stopper, connMu>>

\* emitBrightnessChanged / EmitDisplayAdded / EmitDisplayRemoved is called.
EmitCall(t) ==
    /\ emitter[t].pc \in {"idle", "done"}
    /\ \E sig \in Signals :
         emitter' = [emitter EXCEPT ![t] =
                        [IdleEmitter EXCEPT !.pc = "rlock", !.signal = sig]]
    /\ UNCHANGED <<stopper, connMu, bus, conn>>

\* s.connMu.RLock()
EmitRLock(t) ==
    /\ emitter[t].pc = "rlock"
    /\ connMu.writer = NoThread
    /\ connMu' = [connMu EXCEPT !.readers = @ \cup {t}]
    /\ emitter' = [emitter EXCEPT ![t].pc = "read"]
    /\ UNCHANGED <<stopper, bus, conn>>

\* conn := s.conn
EmitRead(t) ==
    /\ emitter[t].pc = "read"
    /\ emitter' = [emitter EXCEPT ![t].local = conn, ![t].pc = "runlock"]
    /\ UNCHANGED <<stopper, connMu, bus, conn>>

\* s.connMu.RUnlock()
EmitRUnlock(t) ==
    /\ emitter[t].pc = "runlock"
    /\ connMu' = [connMu EXCEPT !.readers = @ \ {t}]
    /\ emitter' = [emitter EXCEPT ![t].pc = "test"]
    /\ UNCHANGED <<stopper, bus, conn>>

\* A variant of the emit methods without the nil test.
ConnIsNilNever(local) == FALSE

\* if conn == nil { return }
ConnIsNil(local) == ~local

EmitTest(t) ==
    /\ emitter[t].pc = "test"
    /\ emitter' = [emitter EXCEPT
                      ![t].pc = IF ConnIsNil(emitter[t].local)
                                  THEN "done" ELSE "emit"]
    /\ UNCHANGED <<stopper, connMu, bus, conn>>

\* err := conn.Emit(...): a nil conn panics; a closed connection returns an
\* error, an open one sends the signal or returns an error; the error is
\* logged.
EmitSend(t) ==
    /\ emitter[t].pc = "emit"
    /\ IF ~emitter[t].local
         THEN emitter' = [emitter EXCEPT ![t].failed = TRUE, ![t].pc = "done"]
         ELSE \E ok \in (IF bus.open THEN BOOLEAN ELSE {FALSE}) :
                emitter' = [emitter EXCEPT ![t].sent = ok, ![t].pc = "done"]
    /\ UNCHANGED <<stopper, connMu, bus, conn>>

\* Server.Stop() is called.
StopCall(t) ==
    /\ stopper[t].pc \in {"idle", "done"}
    /\ stopper' = [stopper EXCEPT ![t] = [IdleStopper EXCEPT !.pc = "lock"]]
    /\ UNCHANGED <<emitter, connMu, bus, conn>>

\* s.connMu.Lock()
StopLock(t) ==
    /\ stopper[t].pc = "lock"
    /\ connMu = [writer |-> NoThread, readers |-> {}]
    /\ connMu' = [connMu EXCEPT !.writer = t]
    /\ stopper' = [stopper EXCEPT ![t].pc = "swap"]
    /\ UNCHANGED <<emitter, bus, conn>>

\* conn := s.conn; s.conn = nil
StopSwap(t) ==
    /\ stopper[t].pc = "swap"
    /\ stopper' = [stopper EXCEPT ![t].local = conn, ![t].pc = "unlock"]
    /\ conn' = FALSE
    /\ UNCHANGED <<emitter, connMu, bus>>

\* s.connMu.Unlock()
StopUnlock(t) ==
    /\ stopper[t].pc = "unlock"
    /\ connMu' = [connMu EXCEPT !.writer = NoThread]
    /\ stopper' = [stopper EXCEPT ![t].pc = "close"]
    /\ UNCHANGED <<emitter, bus, conn>>

\* if conn != nil { return conn.Close() }; return nil
StopClose(t) ==
    /\ stopper[t].pc = "close"
    /\ IF stopper[t].local
         THEN /\ bus' = [bus EXCEPT !.open = FALSE]
              /\ \E ret \in {Ok, ErrBusClose} :
                   stopper' = [stopper EXCEPT ![t].ret = ret, ![t].pc = "done"]
         ELSE /\ UNCHANGED bus
              /\ stopper' = [stopper EXCEPT ![t].ret = Ok, ![t].pc = "done"]
    /\ UNCHANGED <<emitter, connMu, conn>>

NextEmit ==
    /\ \/ ServerStart
       \/ \E t \in EThreads :
            \/ EmitCall(t)
            \/ EmitRLock(t)
            \/ EmitRead(t)
            \/ EmitRUnlock(t)
            \/ EmitTest(t)
            \/ EmitSend(t)
       \/ \E t \in SThreads :
            \/ StopCall(t)
            \/ StopLock(t)
            \/ StopSwap(t)
            \/ StopUnlock(t)
            \/ StopClose(t)
    /\ UNCHANGED <<displayVars, mgrVars, tokens, lastTime, now, allowLog, rpc,
                   deviceErrorHandler, device, coordVars, monVars, evaluated,
                   lifeVars, run, lastDiff, cons, getter, toggle, inc>>

(***************************************************************************)
(* diffDisplays on snapshots                                               *)
(***************************************************************************)
ProductNames == {"Studio Display", "Studio Display XDR"}

\* The snapshots getDisplaysSnapshot can build: a map from some serials to
\* the DeviceInfo of that serial.
Snapshots ==
    UNION {[ks -> ProductNames] : ks \in SUBSET Serials}

DeviceInfoOf(snapshot, serial) ==
    [Serial |-> serial, Product |-> snapshot[serial]]

\* The orders in which a range loop may visit the keys of a map.
RangeOrders(m) ==
    {f \in [1..Cardinality(DOMAIN m) -> DOMAIN m] :
        \A i, j \in DOMAIN f : i # j => f[i] # f[j]}

\* for serial, info := range newDisplays { if _, exists :=
\* oldDisplays[serial]; !exists { changes.added = append(..., info) } }
RECURSIVE AddedLoop(_, _, _)
AddedLoop(order, oldDisplays, newDisplays) ==
    IF order = <<>> THEN <<>>
    ELSE LET serial == Head(order)
             rest == AddedLoop(Tail(order), oldDisplays, newDisplays)
         IN  IF serial \notin DOMAIN oldDisplays
               THEN <<DeviceInfoOf(newDisplays, serial)>> \o rest
               ELSE rest

\* for serial := range oldDisplays { if _, exists := newDisplays[serial];
\* !exists { changes.removed = append(..., serial) } }
RECURSIVE RemovedLoop(_, _, _)
RemovedLoop(order, oldDisplays, newDisplays) ==
    IF order = <<>> THEN <<>>
    ELSE LET serial == Head(order)
             rest == RemovedLoop(Tail(order), oldDisplays, newDisplays)
         IN  IF serial \notin DOMAIN newDisplays
               THEN <<serial>> \o rest
               ELSE rest

\* A variant of diffDisplays that reports the displays of the old snapshot
\* that are still there as removed.
diffDisplaysRemovesKept(oldDisplays, newDisplays, newOrder, oldOrder) ==
    [added |-> AddedLoop(newOrder, oldDisplays, newDisplays),
     removed |-> RemovedLoop(oldOrder, oldDisplays, <<>>)]

\* diffDisplays(oldDisplays, newDisplays), the two range loops visiting the
\* keys in the orders newOrder and oldOrder.
diffDisplays(oldDisplays, newDisplays, newOrder, oldOrder) ==
    [added |-> AddedLoop(newOrder, oldDisplays, newDisplays),
     removed |-> RemovedLoop(oldOrder, oldDisplays, newDisplays)]

NoDiff == [old |-> <<>>, new |-> <<>>, added |-> <<>>, removed |-> <<>>,
           called |-> FALSE]

InitDiff == lastDiff = NoDiff

\* The first call of diffDisplays.
DiffCall ==
    /\ ~lastDiff.called
    /\ \E oldDisplays \in Snapshots, newDisplays \in Snapshots :
         \E newOrder \in RangeOrders(newDisplays),
            oldOrder \in RangeOrders(oldDisplays) :
            LET d == diffDisplays(oldDisplays, newDisplays, newOrder, oldOrder)
            IN  lastDiff' = [old |-> oldDisplays, new |-> newDisplays,
                            added |-> d.added, removed |-> d.removed,
                            called |-> TRUE]

NextDiff ==
    /\ DiffCall
    /\ UNCHANGED <<displayVars, mgrVars, srvVars, device, coordVars, monVars,
                   evaluated, lifeVars, run, emitVars, cons, getter, toggle, inc>>

(***************************************************************************)
(* Two concurrent Server.IncreaseBrightness calls                          *)
(***************************************************************************)
\* The goroutines the bus library runs the two calls on; both calls are
\* within the limiter's burst and name the same display.
IThreads == {"i1", "i2"}

IncSteps == {1, 10, 40}

IdleIncrease == [pc |-> "idle", step |-> 0, current |-> 0, new |-> 0,
                 ret |-> "none", emitted |-> FALSE]

InitIncrease == inc = [t \in IThreads |-> IdleIncrease]

\* IncreaseBrightness(serial, step) is called: the limiter grants it and
\* the serial, the step and the lookup are fine.
IncCall(t) ==
    /\ inc[t].pc = "idle"
    /\ \E step \in IncSteps :
         inc' = [inc EXCEPT ![t] = [IdleIncrease EXCEPT !.pc = "read",
                                                        !.step = step]]
    /\ UNCHANGED device

\* current, err := display.GetBrightness()
IncRead(t) ==
    /\ inc[t].pc = "read"
    /\ \E rd \in {Ok, ErrTransport} :
         inc' = [inc EXCEPT ![t] =
                    IF rd = Ok
                      THEN [@ EXCEPT !.current = DisplayGetBrightness(BrightSerial),
                                     !.pc = "write"]
                      ELSE [@ EXCEPT !.ret = rd, !.pc = "done"]]
    /\ UNCHANGED device

\* A variant that reads the brightness again when it writes.
BaselineAtWrite(t) == DisplayGetBrightness(BrightSerial)

\* uint32(current): the value the call read.
Baseline(t) == inc[t].current

\* newBrightness := uint32(current) + step, limited to 100;
\* err = display.SetBrightness(uint8(newBrightness)); on success the signal
\* is emitted and the call returns nil.
IncWrite(t) ==
    /\ inc[t].pc = "write"
    /\ LET new == NewBrightness("IncreaseBrightness", Baseline(t), inc[t].step)
       IN  \E wr \in {Ok, ErrTransport} :
             IF wr = Ok
               THEN /\ device' = [device EXCEPT
                                     ![BrightSerial] = PercentToNits(ToUint8(new))]
                    /\ inc' = [inc EXCEPT ![t] =
                                 [@ EXCEPT !.new = new, !.ret = Ok,
                                           !.emitted = TRUE, !.pc = "done"]]
               ELSE /\ UNCHANGED device
                    /\ inc' = [inc EXCEPT ![t] =
                                 [@ EXCEPT !.ret = wr, !.pc = "done"]]

NextIncrease ==
    /\ \E t \in IThreads :
          \/ IncCall(t)
          \/ IncRead(t)
          \/ IncWrite(t)
    /\ UNCHANGED <<displayVars, mgrVars, srvVars, coordVars, monVars, extVars>>

(***************************************************************************)
(* The extension's AsdToggle (extension/ui/asdToggle.js)                   *)
(***************************************************************************)
\* The serials the daemon tells the extension about, the signals handled and
\* the refreshes started.
ToggleSerials == {"A", "B"}
MaxSignals == 4
MaxRefreshes == 2

\* The toggle after _init, before its initial _refreshDisplays() call. menu
\* counts the control items in the menu for each serial, displayItems is the
\* key set of _displayItems, adds counts the _addDisplayItem calls started by
\* a DisplayAdded signal that wait for their getBrightness reply, refresh is
\* the position of the _refreshDisplays call in progress with the displays
\* it has still to add (the head is the one whose reply it waits for);
\* removed holds the serials whose DisplayRemoved was handled with neither a
\* DisplayAdded for them nor a step of a refresh since, and lastAdd tells
\* what the latest _addDisplayItem call found on entry.
InitToggle ==
    toggle = [menu |-> [s \in ToggleSerials |-> 0], displayItems |-> {},
              pendingAdds |-> {}, adds |-> [s \in ToggleSerials |-> 0],
              isRefreshing |-> FALSE, refreshVersion |-> 0,
              refresh |-> "none", todo |-> <<>>, destroyed |-> FALSE,
              signals |-> 0, removed |-> {},
              lastAdd |-> [serial |-> "none", had |-> FALSE,
                           pending |-> FALSE, ignored |-> FALSE]]

\* The item of every entry of _displayItems is destroyed and the map is
\* cleared.
ItemsCleared(g) ==
    [g EXCEPT !.menu = [s \in ToggleSerials |->
                           IF s \in g.displayItems THEN g.menu[s] - 1
                           ELSE g.menu[s]],
              !.displayItems = {}]

\* _addDisplayItem(serial) up to its await: ignored when the toggle is
\* destroyed or the serial is in _displayItems or in _pendingAdds; otherwise
\* the serial is put in _pendingAdds and getBrightness is called.
AddIgnored(g, serial) ==
    g.destroyed \/ serial \in g.displayItems \/ serial \in g.pendingAdds

AddEntered(g, serial) ==
    LET seen == [g EXCEPT !.lastAdd = [serial |-> serial,
                                       had |-> serial \in g.displayItems,
                                       pending |-> serial \in g.pendingAdds,
                                       ignored |-> AddIgnored(g, serial)]]
    IN  IF AddIgnored(g, serial) THEN seen
        ELSE [seen EXCEPT !.pendingAdds = @ \cup {serial}]

\* A variant of _addDisplayItem without the test that follows the await.
AlreadyAddedNever(g, serial) == g.destroyed

\* if (!this._displayItems || this._displayItems.has(serial)) return,
\* after the await
AlreadyAdded(g, serial) == g.destroyed \/ serial \in g.displayItems

\* _addDisplayItem(serial) from its getBrightness reply on: the item is made
\* and put in the menu and in _displayItems unless the serial is there by
\* now; in every case the serial leaves _pendingAdds.
AddFinished(g, serial) ==
    LET made == IF AlreadyAdded(g, serial) THEN g
                ELSE [g EXCEPT !.menu[serial] = @ + 1,
                               !.displayItems = @ \cup {serial}]
    IN  IF g.destroyed THEN made
        ELSE [made EXCEPT !.pendingAdds = @ \ {serial}]

\* The loop of _refreshDisplays from the display at the head of todo on: it
\* calls _addDisplayItem for each display and goes on at once when the call
\* was ignored, waits when it was not, and after the last display clears
\* _isRefreshing.
RECURSIVE RefreshLoop(_, _)
RefreshLoop(g, todo) ==
    IF todo = <<>>
      THEN [g EXCEPT !.refresh = "none", !.todo = <<>>, !.isRefreshing = FALSE]
    ELSE IF AddIgnored(g, Head(todo))
      THEN RefreshLoop(AddEntered(g, Head(todo)), Tail(todo))
    ELSE [AddEntered(g, Head(todo)) EXCEPT !.refresh = "adding", !.todo = todo]

\* _onDisplayAdded(serial, productName)
OnDisplayAdded(serial) ==
    /\ toggle.signals < MaxSignals
    /\ ~toggle.destroyed
    /\ LET g == AddEntered(toggle, serial)
       IN  toggle' = [g EXCEPT !.signals = @ + 1,
                               !.removed = @ \ {serial},
                               !.adds[serial] = IF AddIgnored(toggle, serial)
                                                  THEN @ ELSE @ + 1]

\* The getBrightness reply of an _addDisplayItem call started by a signal.
AddReply(serial) ==
    /\ toggle.adds[serial] > 0
    /\ toggle' = [AddFinished(toggle, serial) EXCEPT !.adds[serial] = @ - 1]

\* _onDisplayRemoved(serial): _removeDisplayItem(serial)
OnDisplayRemoved(serial) ==
    /\ toggle.signals < MaxSignals
    /\ ~toggle.destroyed
    /\ toggle' = [toggle EXCEPT
                     !.signals = @ + 1,
                     !.removed = @ \cup {serial},
                     !.menu[serial] = IF serial \in toggle.displayItems
                                        THEN @ - 1 ELSE @,
                     !.displayItems = @ \ {serial}]

\* _refreshDisplays() is called (by _init, or when the daemon becomes
\* available): nothing when a refresh is in progress.
RefreshCall ==
    /\ toggle.refreshVersion < MaxRefreshes
    /\ ~toggle.destroyed
    /\ toggle' = IF toggle.isRefreshing THEN [toggle EXCEPT !.removed = {}]
                 ELSE [toggle EXCEPT !.isRefreshing = TRUE,
                                     !.refreshVersion = @ + 1,
                                     !.refresh = "listing",
                                     !.removed = {}]

\* The listDisplays reply: the items are destroyed, _displayItems and
\* _pendingAdds are cleared and the loop over the displays starts.
RefreshListed ==
    /\ toggle.refresh = "listing"
    /\ \E listed \in SUBSET ToggleSerials :
         \E order \in [1..Cardinality(listed) -> listed] :
            /\ \A i, j \in DOMAIN order : i # j => order[i] # order[j]
            /\ toggle' = IF toggle.destroyed
                           THEN [toggle EXCEPT !.refresh = "none"]
                           ELSE RefreshLoop(
                                  [ItemsCleared(toggle) EXCEPT
                                      !.pendingAdds = {}, !.removed = {}],
                                  order)

\* The getBrightness reply of the _addDisplayItem call the refresh waits
\* for; the loop goes on with the next display.
RefreshAddReply ==
    /\ toggle.refresh = "adding"
    /\ LET g == AddFinished(toggle, Head(toggle.todo))
       IN  toggle' = IF toggle.destroyed
                       THEN [g EXCEPT !.refresh = "none", !.todo = <<>>]
                       ELSE RefreshLoop([g EXCEPT !.removed = {}],
                                        Tail(toggle.todo))

\* _clearDisplays(), when the daemon becomes unavailable
ClearDisplays ==
    /\ ~toggle.destroyed
    /\ toggle' = ItemsCleared(toggle)

\* destroy()
ToggleDestroy ==
    /\ ~toggle.destroyed
    /\ toggle' = [ItemsCleared(toggle) EXCEPT !.destroyed = TRUE,
                                              !.isRefreshing = FALSE,
                                              !.pendingAdds = {}]

NextToggle ==
    /\ \/ \E serial \in ToggleSerials : OnDisplayAdded(serial)
       \/ \E serial \in ToggleSerials : AddReply(serial)
       \/ \E serial \in ToggleSerials : OnDisplayRemoved(serial)
       \/ RefreshCall
       \/ RefreshListed
       \/ RefreshAddReply
       \/ ClearDisplays
       \/ ToggleDestroy
    /\ UNCHANGED <<displayVars, mgrVars, srvVars, device, coordVars, monVars,
                   evaluated, lifeVars, run, emitVars, lastDiff, cons, getter,
                   inc>>

(***************************************************************************)
(* Specifications                                                          *)
(***************************************************************************)
Init ==
    /\ InitDisplay /\ InitManager /\ InitServer /\ InitDevice /\ InitCoord
    /\ InitMonitor /\ InitMatcher /\ InitLife /\ InitRun
    /\ InitEmitters /\ InitDiff /\ InitIncrease /\ InitConsumer
    /\ InitGetter /\ InitToggle

SpecDisplay == Init /\ [][NextDisplay]_vars

SpecManager == Init /\ [][NextManager]_vars

SpecGet == Init /\ [][NextGet]_vars

\* The daemon after run's initial refresh found displays A and B.
InitWithDisplays ==
    /\ InitDisplay /\ ManagerWithTwoDisplays /\ InitServer /\ InitDevice
    /\ InitCoord /\ InitMonitor /\ InitMatcher /\ InitLife /\ InitRun
    /\ InitEmitters /\ InitDiff /\ InitIncrease /\ InitConsumer
    /\ InitGetter /\ InitToggle

\* The same, with the device at any of the brightness values explored.
InitBrightness ==
    /\ InitDisplay /\ ManagerWithTwoDisplays /\ InitServer /\ InitCoord
    /\ InitMonitor /\ InitMatcher /\ InitLife /\ InitRun
    /\ InitEmitters /\ InitDiff /\ InitIncrease /\ InitConsumer
    /\ InitGetter /\ InitToggle
    /\ \E n \in DeviceNits : device = [s \in Serials |-> n]

SpecBrightness == InitBrightness /\ [][NextBrightness]_vars

SpecServer == InitWithDisplays /\ [][NextServer]_vars

SpecRate == InitWithDisplays /\ [][NextRate]_vars

SpecSetAll == InitWithDisplays /\ [][NextSetAll]_vars

SpecCoord == Init /\ [][NextCoord]_vars

SpecMonitor == Init /\ [][NextMonitor]_vars

SpecMatcher == Init /\ [][NextMatcher]_vars

SpecLife == Init /\ [][NextLife]_vars

SpecShutdown == Init /\ [][NextShutdown]_vars

SpecConsumer == Init /\ [][NextConsumer]_vars

SpecToggle == Init /\ [][NextToggle]_vars

\* NewServer: as InitServer, with s.conn still nil.
InitNewServer ==
    /\ conn = FALSE
    /\ tokens = rateLimitBurst * OneToken
    /\ lastTime = 0
    /\ now = 0
    /\ allowLog = <<>>
    /\ rpc = NoCall
    /\ deviceErrorHandler = FALSE

InitEmit ==
    /\ InitDisplay /\ InitManager /\ InitNewServer /\ InitDevice /\ InitCoord
    /\ InitMonitor /\ InitMatcher /\ InitLife /\ InitRun /\ InitEmitters
    /\ InitDiff /\ InitIncrease /\ InitConsumer /\ InitGetter
    /\ InitToggle

SpecEmit == InitEmit /\ [][NextEmit]_vars

SpecDiff == Init /\ [][NextDiff]_vars

SpecIncrease == InitBrightness /\ [][NextIncrease]_vars

(***************************************************************************)
(* Properties                                                              *)
(***************************************************************************)

\* C5: a GetBrightness or SetBrightness that takes the Display's mutex after
\* Close has set d.closed returns the display-closed error and makes no
\* transport call, and no get/send transport call is in progress or pending
\* for it.
ClosedDisplayRejectsBrightness ==
    \A t \in DThreads :
        (dop[t] \in {"get", "set"} /\ dafter[t] /\ dpc[t] # "check") =>
            /\ dpc[t] \in {"unlock", "done"}
            /\ dret[t] = ErrDisplayClosed
            /\ dio[t] = 0

\* C5 witness: Close has run and a later brightness call has returned.
ClosedDisplayRejectsBrightnessWitness ==
    \E t \in DThreads :
        /\ dop[t] \in {"get", "set"}
        /\ dafter[t]
        /\ dpc[t] = "done"
        /\ devClose = 1

\* C6: the transport's Close is called exactly once, by the first Close call;
\* every Close that takes the mutex after that returns ok without a transport
\* call.
CloseIdempotent ==
    /\ devClose <= 1
    /\ closed <=> (devClose = 1)
    /\ \A t \in DThreads :
        (dop[t] = "close" /\ dafter[t] /\ dpc[t] # "check") =>
            /\ dpc[t] \in {"unlock", "done"}
            /\ dret[t] = Ok
            /\ dio[t] = 0

\* C6 witness: two Close calls have returned, one of them after the other
\* had closed the Display.
CloseIdempotentWitness ==
    \E t1, t2 \in DThreads :
        /\ t1 # t2
        /\ dop[t1] = "close" /\ dpc[t1] = "done" /\ dio[t1] = 1
        /\ dop[t2] = "close" /\ dpc[t2] = "done" /\ dafter[t2]

\* A RefreshDisplays call of thread t has returned ok and still holds m.mu.
RefreshReturnedOk(t) ==
    mpc[t] = "unlock" /\ mop[t] = "refresh" /\ mret[t] = Ok

\* C2: every entry of the displays map refers to a Display that is not
\* closed and whose HID handle is open, and no serial has two HID handles
\* open at the same time.
ManagerEntriesOpen ==
    \A s \in Serials :
        /\ displays[s] # "closed"
        /\ displays[s] = "open" => handles[s] >= 1
        /\ handles[s] <= 1

\* C2 witness: a refresh whose enumerator listed one serial twice has opened
\* that serial.
ManagerEntriesOpenWitness ==
    \E t \in MThreads :
        /\ RefreshReturnedOk(t)
        /\ Len(currentDevices[t]) = 2
        /\ currentDevices[t][1] = currentDevices[t][2]
        /\ displays[currentDevices[t][1]] = "open"
        /\ nOpened[t] = 1

\* C3: when RefreshDisplays returns ok, the key set is the set of enumerated
\* serials minus those whose opener call failed in this call; exactly the
\* serials that were not in the map before were opened and exactly those no
\* longer enumerated were closed.
RefreshKeySet ==
    \A t \in MThreads :
        RefreshReturnedOk(t) =>
            /\ Keys(displays) =
                 {currentDevices[t][i] : i \in 1..Len(currentDevices[t])}
                    \ failed[t]
            /\ nOpened[t] = Cardinality(Keys(displays) \ before[t])
            /\ nClosed[t] = Cardinality(before[t] \ Keys(displays))

\* C3 witness: a refresh that kept one serial, dropped another and failed to
\* open a third has returned ok.
RefreshKeySetWitness ==
    \E t \in MThreads :
        /\ RefreshReturnedOk(t)
        /\ failed[t] # {}
        /\ before[t] \ Keys(displays) # {}
        /\ before[t] \cap Keys(displays) # {}

\* C4: when the enumerator fails, RefreshDisplays returns the enumeration
\* error with the map as it was: same key set, nothing opened, nothing
\* closed.
EnumerationErrorKeepsMap ==
    \A t \in MThreads :
        enumErr[t] =>
            /\ mpc[t] = "unlock"
            /\ mret[t] = ErrEnumerate
            /\ Keys(displays) = before[t]
            /\ \A s \in before[t] : displays[s] = "open" /\ handles[s] = 1
            /\ nOpened[t] = 0
            /\ nClosed[t] = 0

\* C4 witness: the enumerator failed while the map held a display.
EnumerationErrorKeepsMapWitness ==
    \E t \in MThreads : enumErr[t] /\ before[t] # {}

\* C7: when Manager.Close returns, it returns ok, every Display that was in
\* the map has been closed and the map is empty.
ManagerCloseEmpties ==
    \A t \in MThreads :
        (mpc[t] = "unlock" /\ mop[t] = "close") =>
            /\ mret[t] = Ok
            /\ Count = 0
            /\ nClosed[t] = Cardinality(before[t])
            /\ \A s \in before[t] : handles[s] = 0

\* C7 witness: Manager.Close has returned after closing two Displays, one
\* of which failed to close.
ManagerCloseEmptiesWitness ==
    \E t \in MThreads :
        /\ mpc[t] = "unlock" /\ mop[t] = "close"
        /\ Cardinality(before[t]) = 2
        /\ closeErr[t]

\* A successful RefreshDisplays of thread t directly follows a successful
\* RefreshDisplays that was given the same enumerator output.
SecondRunSameOutput(t) ==
    /\ RefreshReturnedOk(t)
    /\ lastRun.op = "refresh"
    /\ lastRun.devices = currentDevices[t]

\* C8 as stated: the second of two refreshes with the same enumerator output
\* leaves the count unchanged, opens nothing and closes nothing.
RefreshIdempotentAsStated ==
    \A t \in MThreads :
        SecondRunSameOutput(t) =>
            /\ Cardinality(Keys(displays)) = Cardinality(before[t])
            /\ nOpened[t] = 0
            /\ nClosed[t] = 0

\* C8 amended: the second run closes nothing; it leaves the count unchanged
\* and opens nothing when no opener call failed in the first run.
RefreshIdempotent ==
    \A t \in MThreads :
        SecondRunSameOutput(t) =>
            /\ nClosed[t] = 0
            /\ lastRun.failed = {} =>
                  /\ Keys(displays) = before[t]
                  /\ nOpened[t] = 0

\* C8 witness: a second run over the same non-empty output, the first run
\* having opened everything.
RefreshIdempotentWitness ==
    \E t \in MThreads :
        /\ SecondRunSameOutput(t)
        /\ lastRun.failed = {}
        /\ Cardinality(before[t]) = 2

\* A handler invocation is between taking its old snapshot and emitting its
\* last signal.
InCycle(t) ==
    coord[t].pc \in {"settle", "refresh", "backoff", "check", "diff", "emit"}

\* C1: at most one Coordinator handler is between taking its old snapshot and
\* emitting its last signal, and that handler holds refreshMu.
HandlersNeverOverlap ==
    \A t1 \in CTasks :
        InCycle(t1) =>
            /\ refreshMu = t1
            /\ \A t2 \in CTasks \ {t1} : ~InCycle(t2)

\* A handler is emitting its signals while the two others have been called
\* and wait for refreshMu.
HandlersNeverOverlapWitness ==
    \E t1 \in CTasks :
        /\ coord[t1].pc = "emit"
        /\ coord[t1].emitted # <<>>
        /\ \A t2 \in CTasks \ {t1} : coord[t2].pc = "lock"

\* The first n rate-limited calls were all made at time 0.
ImmediateCalls(n) ==
    /\ Len(allowLog) >= n
    /\ \A i \in 1..n : allowLog[i].t = 0

\* The call that just returned was the k-th rate-limited call.
JustMadeCall(k) == Len(allowLog) = k /\ rpc.op = "SetBrightness"

\* C9 as stated: from a full bucket 5 immediate SetBrightness calls are
\* granted and a 6th call issued within the same second fails with the
\* rate-limit error.
SixthCallFailsWithinSecond ==
    /\ \A k \in 1..5 :
         JustMadeCall(k) /\ ImmediateCalls(k) =>
             allowLog[k].passed /\ rpc.ret # ErrRateLimitExceeded
    /\ JustMadeCall(6) /\ ImmediateCalls(5) /\ allowLog[6].t < 1000 =>
         ~allowLog[6].passed /\ rpc.ret = ErrRateLimitExceeded

\* C9: from a full bucket 5 immediate SetBrightness calls are granted; a 6th
\* call issued less than 50 ms after them fails with the rate-limit error,
\* and a 6th call issued 50 ms or more after them is granted.
SixthCallFailsWithin50ms ==
    /\ \A k \in 1..5 :
         JustMadeCall(k) /\ ImmediateCalls(k) =>
             allowLog[k].passed /\ rpc.ret # ErrRateLimitExceeded
    /\ JustMadeCall(6) /\ ImmediateCalls(5) =>
         IF allowLog[6].t < 50
           THEN ~allowLog[6].passed /\ rpc.ret = ErrRateLimitExceeded
           ELSE allowLog[6].passed /\ rpc.ret # ErrRateLimitExceeded

\* Five immediate calls were granted and the 6th, made a tick later, failed.
SixthCallFailsWithin50msWitness ==
    /\ JustMadeCall(6)
    /\ ImmediateCalls(5)
    /\ \A i \in 1..5 : allowLog[i].passed
    /\ allowLog[6].t > 0
    /\ allowLog[6].t < 50
    /\ rpc.ret = ErrRateLimitExceeded

\* C10: a brightness-mutating call that finds the bucket empty fails with
\* rate-limit-exceeded and makes no display lookup or listing, no transport
\* read or write, emits no signal and starts no recovery.
RateLimitedCallTouchesNothing ==
    rpc.op \in MutatingOps /\ rpc.empty =>
        /\ rpc.ret = ErrRateLimitExceeded
        /\ rpc.lookups = 0
        /\ rpc.lists = 0
        /\ rpc.reads = 0
        /\ rpc.writes = <<>>
        /\ rpc.emits = <<>>
        /\ rpc.recov = <<>>

\* A SetAllBrightness call found the bucket empty and was refused, with
\* displays in the map and the connection up.
RateLimitedCallTouchesNothingWitness ==
    /\ rpc.op = "SetAllBrightness"
    /\ rpc.empty
    /\ rpc.ret = ErrRateLimitExceeded
    /\ Keys(displays) # {}
    /\ conn

\* What Server.GetBrightness returns for the display of the brightness calls
\* when it is called in this state.
FollowingGet ==
    GetBrightnessResult(BrightSerial, DisplayGetBrightness(BrightSerial), Ok)

\* C11: a successful SetBrightness with a percent above 100 sends the 100%
\* value, 60000 nits, to the display and emits BrightnessChanged with 100, and
\* a GetBrightness that follows returns 100; after SetBrightness(s, 50) a
\* GetBrightness returns 50.
SetBrightnessClampsTo100 ==
    rpc.op = "SetBrightness" /\ rpc.ret = Ok =>
        /\ rpc.arg > 100 =>
              /\ rpc.writes = << <<rpc.serial, 100>> >>
              /\ device[rpc.serial] = 60000
              /\ rpc.emits = << <<"BrightnessChanged", rpc.serial, 100>> >>
              /\ FollowingGet.ret = Ok
              /\ FollowingGet.value = 100
        /\ rpc.arg = 50 =>
              /\ FollowingGet.ret = Ok
              /\ FollowingGet.value = 50

\* SetBrightness(s, 306) returned: the device holds 60000 nits.
SetBrightnessClampsTo100Witness ==
    /\ rpc.op = "SetBrightness"
    /\ rpc.arg = 306
    /\ rpc.ret = Ok
    /\ device[BrightSerial] = 60000
    /\ FollowingGet.value = 100

StepOps == {"IncreaseBrightness", "DecreaseBrightness"}

\* C12 as stated: IncreaseBrightness and DecreaseBrightness called with step
\* 0 or a step above 100 return the invalid-step error and neither read nor
\* write the display.
InvalidStepAlwaysStepError ==
    rpc.op \in StepOps /\ (rpc.arg = 0 \/ rpc.arg > 100) =>
        /\ rpc.ret = ErrInvalidStep
        /\ rpc.reads = 0
        /\ rpc.writes = <<>>

\* C12: IncreaseBrightness and DecreaseBrightness called with step 0 or a
\* step above 100 neither read nor write the display nor emit a signal; they
\* return the invalid-step error when the bucket had a token and the serial
\* is not empty, the rate-limit error when the bucket was empty and else the
\* empty-serial error.
InvalidStepRejected ==
    rpc.op \in StepOps /\ (rpc.arg = 0 \/ rpc.arg > 100) =>
        /\ rpc.reads = 0
        /\ rpc.writes = <<>>
        /\ rpc.emits = <<>>
        /\ rpc.lookups = 0
        /\ rpc.ret = IF rpc.empty THEN ErrRateLimitExceeded
                     ELSE IF rpc.serial = "" THEN ErrEmptySerial
                     ELSE ErrInvalidStep

\* DecreaseBrightness of a connected display with step 101 was refused.
InvalidStepRejectedWitness ==
    /\ rpc.op = "DecreaseBrightness"
    /\ rpc.arg = 101
    /\ rpc.serial = "A"
    /\ displays["A"] = "open"
    /\ rpc.ret = ErrInvalidStep

\* C13: a successful IncreaseBrightness that read c writes min(c + s, 100), a
\* successful DecreaseBrightness writes max(c - s, 0), for c in 0..100 and
\* step s in 1..100, and BrightnessChanged carries the value written.
StepWritesClampedValue ==
    rpc.op \in StepOps /\ rpc.ret = Ok =>
        LET c == rpc.value
            s == rpc.arg
            new == IF rpc.op = "IncreaseBrightness"
                     THEN (IF c + s < 100 THEN c + s ELSE 100)
                     ELSE (IF c - s > 0 THEN c - s ELSE 0)
        IN  /\ c \in 0..100
            /\ s \in 1..100
            /\ rpc.writes = << <<rpc.serial, new>> >>
            /\ rpc.emits = << <<"BrightnessChanged", rpc.serial, new>> >>
            /\ device[rpc.serial] = PercentToNits(new)

\* DecreaseBrightness by 10 read 5 and wrote 0.
StepWritesClampedValueWitness ==
    /\ rpc.op = "DecreaseBrightness"
    /\ rpc.ret = Ok
    /\ rpc.value = 5
    /\ rpc.arg = 10
    /\ rpc.writes = << <<BrightSerial, 0>> >>
    /\ device[BrightSerial] = 400

Occurrences(seq, x) == Cardinality({i \in 1..Len(seq) : seq[i] = x})

\* The invocation t of a handler has made its last statement and is about to
\* return.
Returning(t) == coord[t].pc = "unlock"

\* C15: a handler cycle that completes calls EmitDisplayAdded exactly once
\* for each serial in the new snapshot but not in the old one and for no
\* other, and the signals go out when the connection is up; a hot-plug add
\* that finds the map empty and one display enumerated emits one DisplayAdded
\* for it and nothing else, and Count is 1.
EmitsAddedOncePerNewDisplay ==
    \A t \in CTasks :
        LET c == coord[t]
        IN  Returning(t) /\ c.diffed =>
              /\ \A s \in Serials :
                    Occurrences(c.emitted, <<"DisplayAdded", s>>) =
                        IF s \in c.newDisplays \ c.oldDisplays THEN 1 ELSE 0
              /\ conn => c.sent = c.emitted
              /\ Keys(displays) = c.newDisplays
              /\ \A s \in Serials :
                    c.oldDisplays = {} /\ c.newDisplays = {s} =>
                        /\ c.emitted = << <<"DisplayAdded", s>> >>
                        /\ Count = 1

\* The hot-plug handler, called with an add event when the map was empty,
\* found display A and emitted DisplayAdded for it.
EmitsAddedOncePerNewDisplayWitness ==
    LET c == coord["hotplug"]
    IN  /\ Returning("hotplug")
        /\ c.event = "add"
        /\ c.oldDisplays = {}
        /\ c.sent = << <<"DisplayAdded", "A">> >>
        /\ Count = 1

NotFoundReturnsEarly ==
    LET c == coord["hotplug"]
    IN  Returning("hotplug") /\ ~c.found =>
          /\ ~c.diffed
          /\ c.emitted = <<>>

\* C18: within one handler cycle no EmitDisplayRemoved call comes before an
\* EmitDisplayAdded call.
AddedBeforeRemoved ==
    \A t \in CTasks :
        \A i, j \in 1..Len(coord[t].emitted) :
            /\ coord[t].emitted[i][1] = "DisplayRemoved"
            /\ coord[t].emitted[j][1] = "DisplayAdded"
            => j < i

\* A cycle emitted a DisplayAdded and then a DisplayRemoved, and both went
\* out.
AddedBeforeRemovedWitness ==
    \E t \in CTasks :
        /\ Returning(t)
        /\ Len(coord[t].sent) = 2
        /\ coord[t].sent[1][1] = "DisplayAdded"
        /\ coord[t].sent[2][1] = "DisplayRemoved"

\* The uevent i of the log was a REMOVE that came less than 500 ms after a
\* delivered REMOVE of the same PRODUCT.
FollowsDeliveredRemove(i) ==
    \E k \in 1..(i - 1) :
        /\ mlog[k].action = "remove"
        /\ mlog[k].delivered = "Remove"
        /\ mlog[k].product = mlog[i].product
        /\ mlog[i].t - mlog[k].t < 500

\* C19: a REMOVE that comes less than 500 ms after a delivered REMOVE of the
\* same PRODUCT is not delivered, so two such REMOVEs yield one Remove event;
\* a REMOVE with no delivered REMOVE of its PRODUCT in the 500 ms before it
\* is delivered, so REMOVEs of distinct PRODUCTs yield one event each; every
\* accepted ADD is delivered, whatever came before it.
RemoveDebounced ==
    \A i \in 1..Len(mlog) :
        /\ mlog[i].action = "remove" =>
              mlog[i].delivered = IF FollowsDeliveredRemove(i)
                                    THEN "none" ELSE "Remove"
        /\ mlog[i].action = "add" /\ mlog[i].devtype = "usb_device" =>
              mlog[i].delivered = "Add"

\* Two REMOVEs of one PRODUCT 250 ms apart, the first delivered and the
\* second not, then a REMOVE of another PRODUCT that was delivered.
RemoveDebouncedWitness ==
    /\ Len(mlog) = 3
    /\ \A i \in 1..3 : mlog[i].action = "remove"
    /\ mlog[1].product = mlog[2].product
    /\ mlog[3].product # mlog[1].product
    /\ mlog[2].t - mlog[1].t > 0
    /\ mlog[2].t - mlog[1].t < 500
    /\ mlog[1].delivered = "Remove"
    /\ mlog[2].delivered = "none"
    /\ mlog[3].delivered = "Remove"

\* C20: handleEvent delivers Add for action add exactly when DEVTYPE is
\* usb_device, delivers nothing for the actions other than add and remove,
\* and for action remove DEVTYPE plays no part: the first REMOVE of a PRODUCT
\* is delivered as Remove with DEVTYPE missing, usb_device or usb_interface,
\* and a REMOVE is never delivered as anything else.
EventFilter ==
    \A i \in 1..Len(mlog) :
        LET e == mlog[i]
        IN  /\ e.action = "add" =>
                 e.delivered = IF e.devtype = "usb_device" THEN "Add" ELSE "none"
            /\ e.action = "remove" =>
                 /\ e.delivered \in {"Remove", "none"}
                 /\ (\A k \in 1..(i - 1) :
                        mlog[k].action = "remove" =>
                            mlog[k].product # e.product)
                    => e.delivered = "Remove"
            /\ e.action \notin {"add", "remove"} => e.delivered = "none"

\* An add with DEVTYPE usb_interface was dropped, a remove with no DEVTYPE
\* was delivered and a change was dropped.
EventFilterWitness ==
    /\ Len(mlog) = 3
    /\ mlog[1].action = "add"
    /\ mlog[1].devtype = "usb_interface"
    /\ mlog[1].delivered = "none"
    /\ mlog[2].action = "remove"
    /\ mlog[2].devtype = ""
    /\ mlog[2].delivered = "Remove"
    /\ mlog[3].action = "change"
    /\ mlog[3].delivered = "none"


\* The fields of a text, separated by slashes.
RECURSIVE Fields(_)
Fields(str) ==
    IF \A i \in 1..Len(str) : str[i] # Slash THEN <<str>>
    ELSE LET i == CHOOSE n \in 1..Len(str) :
                     str[n] = Slash /\ \A k \in 1..(n - 1) : str[k] # Slash
         IN  <<SubSeq(str, 1, i - 1)>> \o Fields(SubSeq(str, i + 1, Len(str)))

\* 5ac with any case of a and c, with or without a leading zero.
AppleVendorForms ==
    {<<"5", x, y>> : x \in {"a", "A"}, y \in {"c", "C"}}
    \cup {<<"0", "5", x, y>> : x \in {"a", "A"}, y \in {"c", "C"}}

\* C21: the matcher accepts a uevent exactly when its subsystem is usb, its
\* action is add or remove and its PRODUCT has three slash-separated fields:
\* an Apple vendor form, 1114 and a non-empty third field.  In particular it
\* rejects product 8286, vendor 1234, and a product id that only starts with
\* 1114.
UeventMatcherAccepts ==
    evaluated # NoEvaluation =>
        LET f == Fields(evaluated.product)
        IN  /\ evaluated.result <=>
                /\ evaluated.subsystem = <<"u", "s", "b">>
                /\ evaluated.action \in {<<"a", "d", "d">>,
                                          <<"r", "e", "m", "o", "v", "e">>}
                /\ Len(f) = 3
                /\ f[1] \in AppleVendorForms
                /\ f[2] = <<"1", "1", "1", "4">>
                /\ f[3] # <<>>
            /\ (Len(f) >= 2 /\ f[2] \in {<<"8", "2", "8", "6">>,
                                         <<"1", "1", "1", "4", "9">>})
                  => ~evaluated.result
            /\ f[1] = <<"1", "2", "3", "4">> => ~evaluated.result

\* C21 witness: a remove of 05AC/1114/157 on usb was accepted.
UeventMatcherAcceptsWitness ==
    /\ evaluated.result
    /\ evaluated.action = <<"r", "e", "m", "o", "v", "e">>
    /\ evaluated.product = <<"0", "5", "A", "C", "/", "1", "1", "1", "4", "/",
                             "1", "5", "7">>

\* The overflow errors among the errors explored: ENOBUFS in the chain, or a
\* message that holds "no buffer space available" in any case.
OverflowErrors ==
    {x \in NetlinkErrors :
        \/ x.errno = "ENOBUFS"
        \/ Len(x.text) >= 25
             /\ \E j \in 0..(Len(x.text) - 25) :
                  /\ x.text[j + 1] \in {"n", "N"}
                  /\ x.text[j + 2] = "o"
                  /\ x.text[j + 4] \in {"b", "B"}
                  /\ SubSeq(x.text, j + 5, j + 10) = <<"u", "f", "f", "e", "r", " ">>
                  /\ x.text[j + 11] \in {"s", "S"}
                  /\ SubSeq(x.text, j + 12, j + 16) = <<"p", "a", "c", "e", " ">>
                  /\ x.text[j + 17] \in {"a", "A"}
                  /\ SubSeq(x.text, j + 18, j + 25) =
                        <<"v", "a", "i", "l", "a", "b", "l", "e">>}

\* C22: every overflow error the consumer deals with while the Monitor is
\* not stopped starts the recovery handler once when one is registered and
\* not at all otherwise, and leaves the consumer at its select, where it
\* takes the next event or error; the consumer exits only on an error that
\* finds the Monitor stopped; the recovery tasks started are those of the
\* overflow errors.
OverflowStartsRecovery ==
    /\ \A i \in 1..Len(elog) :
         (elog[i].err \in OverflowErrors /\ ~elog[i].stopped) =>
            /\ elog[i].started = IF elog[i].handler THEN 1 ELSE 0
            /\ elog[i].after = "select"
    /\ \A i \in 1..Len(elog) :
         elog[i].err \notin OverflowErrors => elog[i].started = 0
    /\ mon.pc = "exited" => (elog # <<>> /\ elog[Len(elog)].stopped)
    /\ mon.recoveries =
         Cardinality({i \in 1..Len(elog) : elog[i].started = 1})

\* C22 witness: an overflow error reported by its message only started the
\* recovery handler, and the consumer then handled a uevent and dealt with
\* a second overflow error.
OverflowStartsRecoveryWitness ==
    /\ Len(elog) = 2
    /\ elog[1].err.errno = "none"
    /\ elog[1].err \in OverflowErrors
    /\ elog[1].started = 1
    /\ elog[2].err \in OverflowErrors
    /\ elog[2].handled > elog[1].handled
    /\ elog[2].after = "select"
    /\ mon.recoveries = 2

\* C23: a Stop on a Monitor that was never started, and a Stop that follows
\* another Stop with no successful Start in between, returns nil, closes no
\* socket, sends no quit signal and leaves conn and stopped as they were.
StopIdempotent ==
    (mcall.op = "Stop" /\ (mcall.starts = 0 \/ mcall.stops >= 1)) =>
        /\ mcall.ret = Ok
        /\ mcall.closed = 0
        /\ mcall.quit = 0
        /\ mcall.after = mcall.before

\* C23 witness: the second Stop of a started Monitor whose first Stop
\* failed to close the socket.
StopIdempotentWitness ==
    /\ mcall.op = "Stop"
    /\ mcall.starts = 1
    /\ mcall.stops = 1
    /\ mcall.before = <<TRUE, TRUE>>
    /\ mcall.ret = Ok

\* C24: the teardown steps made so far are, in this order, Monitor.Stop,
\* Server.Stop and Manager.Close, each made once the one before it returned
\* and whatever that one returned: the teardown is done only when all three
\* have run.
TeardownInOrder ==
    /\ Len(run.log) <= 3
    /\ Len(run.log) >= 1 => run.log[1][1] = "Monitor.Stop"
    /\ Len(run.log) >= 2 => run.log[2][1] = "Server.Stop"
    /\ Len(run.log) >= 3 => run.log[3][1] = "Manager.Close"
    /\ run.pc = "done" => Len(run.log) = 3
    /\ run.pc \in {"start", "wait"} => run.log = <<>>

\* C24 witness: the teardown is done, Monitor.Stop and Server.Stop having
\* both returned an error.
TeardownInOrderWitness ==
    /\ run.pc = "done"
    /\ run.log[1][2] = ErrCloseNetlink
    /\ run.log[2][2] = ErrBusClose
    /\ displays = NoDisplays

\* C25, as claimed: once the teardown has closed the Manager, no recovery
\* or device-error task refreshes it: no display handle is open and the map
\* is empty until the process ends.
NoRefreshAfterTeardown ==
    Len(run.log) = 3 =>
        \A s \in Serials : handles[s] = 0 /\ displays[s] = "none"

\* C26: an emit call that found s.conn nil, before Start set it or after a
\* Stop cleared it, whatever the Stop calls under way, does not call
\* conn.Emit: it sends nothing and does not fail.
EmitOnNilConnIsNoop ==
    \A t \in EThreads :
        (emitter[t].pc \in {"test", "emit", "done"} /\ ~emitter[t].local) =>
            /\ emitter[t].pc # "emit"
            /\ ~emitter[t].sent
            /\ ~emitter[t].failed

\* C26 witness: after Start, a Stop has cleared s.conn and is about to
\* close the connection, a second Stop holds connMu, one emit call has
\* returned having found s.conn nil and another still holds the connection
\* it read before the Stop.
EmitOnNilConnIsNoopWitness ==
    /\ bus.started /\ bus.open
    /\ stopper["s1"].pc = "close" /\ stopper["s1"].local
    /\ stopper["s2"].pc = "swap"
    /\ emitter["e1"].pc = "done" /\ ~emitter["e1"].local
    /\ emitter["e1"].signal = "DisplayRemoved"
    /\ emitter["e2"].pc = "emit" /\ emitter["e2"].local

\* The number of entries of seq that satisfy Test.
Count2(seq, Test(_)) == Cardinality({i \in 1..Len(seq) : Test(seq[i])})

\* C27: a SetAllBrightness call the limiter let through returns ok, looks
\* up every display ListDisplays returned whatever came of the others,
\* writes the clamped value once to each display that was found and is not
\* closed, and emits BrightnessChanged once for each display whose write
\* succeeded and for no other (nothing goes out while s.conn is nil).
SetAllIsBestEffort ==
    (rpc.op = "SetAllBrightness" /\ ~rpc.empty) =>
        /\ rpc.ret = Ok
        /\ rpc.lookups = Len(rpc.listed)
        /\ \A i \in 1..Len(rpc.listed) :
              LET s == rpc.listed[i]
                  ToS(w) == w[1] = s
                  SignalOfS(g) == g[2] = s
              IN  /\ Count2(rpc.writes, ToS) =
                        IF rpc.outs[i] \in {ErrNotFound, ErrDisplayClosed}
                          THEN 0 ELSE 1
                  /\ Count2(rpc.emits, SignalOfS) =
                        IF rpc.outs[i] = Ok /\ rpc.connected THEN 1 ELSE 0
        /\ \A i \in 1..Len(rpc.emits) :
              /\ rpc.emits[i][1] = "BrightnessChanged"
              /\ rpc.emits[i][3] = IF rpc.arg > 100 THEN 100 ELSE rpc.arg
              /\ \E k \in 1..Len(rpc.listed) : rpc.listed[k] = rpc.emits[i][2]

\* C27 witness: the lookup of the first display failed, and the second was
\* written and its signal emitted.
SetAllIsBestEffortWitness ==
    /\ rpc.op = "SetAllBrightness"
    /\ rpc.ret = Ok
    /\ Len(rpc.listed) = 2
    /\ rpc.outs = <<ErrNotFound, Ok>>
    /\ rpc.writes = <<<<rpc.listed[2], 50>>>>
    /\ rpc.emits = <<<<"BrightnessChanged", rpc.listed[2], 50>>>>

\* C28: for every percent p of 0..100, the nits value PercentToNits(p) that
\* a successful SetBrightness(s, p) leaves in the device is turned back into
\* p by NitsToPercent, as the following GetBrightness shows; the value is
\* 400 for p = 0 and 60000 for p = 100.
PercentRoundTrip ==
    (rpc.op = "SetBrightness" /\ rpc.ret = Ok /\ rpc.arg <= 100) =>
        /\ FollowingGet.value = rpc.arg
        /\ rpc.arg = 0 => device[rpc.serial] = 400
        /\ rpc.arg = 100 => device[rpc.serial] = 60000
        /\ device[rpc.serial] >= 400 /\ device[rpc.serial] <= 60000

\* C28 witness: SetBrightness(s, 37) left 22452 nits, which read back as 37.
PercentRoundTripWitness ==
    /\ rpc.op = "SetBrightness"
    /\ rpc.ret = Ok
    /\ rpc.arg = 37
    /\ device[BrightSerial] = 22452
    /\ FollowingGet.value = 37

\* C29: diffDisplays returns in added the DeviceInfo the new snapshot holds
\* for each serial that is not in the old one, each once and no other, and
\* in removed each serial of the old snapshot that is not in the new one,
\* once and no other; the keys of old without removed and with the serials
\* of added are the keys of new.
DiffLaw ==
    lastDiff.called =>
        LET old == DOMAIN lastDiff.old
            new == DOMAIN lastDiff.new
            addedSerials == {lastDiff.added[i].Serial : i \in DOMAIN lastDiff.added}
            removedSerials == {lastDiff.removed[i] : i \in DOMAIN lastDiff.removed}
        IN  /\ addedSerials = new \ old
            /\ Len(lastDiff.added) = Cardinality(new \ old)
            /\ \A i \in DOMAIN lastDiff.added :
                  lastDiff.added[i].Product =
                      lastDiff.new[lastDiff.added[i].Serial]
            /\ removedSerials = old \ new
            /\ Len(lastDiff.removed) = Cardinality(old \ new)
            /\ (old \ removedSerials) \cup addedSerials = new

\* C29 witness: old holds A and B, new holds B (under another product name)
\* and C: C is added, A is removed and B is neither.
DiffLawWitness ==
    /\ lastDiff.called
    /\ DOMAIN lastDiff.old = {"A", "B"}
    /\ DOMAIN lastDiff.new = {"B", "C"}
    /\ lastDiff.old["B"] # lastDiff.new["B"]
    /\ Len(lastDiff.added) = 1
    /\ lastDiff.added[1].Serial = "C"
    /\ lastDiff.removed = <<"A">>

\* C30: when two concurrent IncreaseBrightness calls with the same step s
\* have both returned ok having both read the brightness b, the display is
\* at min(b + s, 100): one of the two increments is lost.
IncrementLost ==
    ((\A t \in IThreads : inc[t].pc = "done" /\ inc[t].ret = Ok)
        /\ inc["i1"].current = inc["i2"].current
        /\ inc["i1"].step = inc["i2"].step) =>
        LET b == inc["i1"].current
            s == inc["i1"].step
        IN  /\ DisplayGetBrightness(BrightSerial) =
                    IF b + s > 100 THEN 100 ELSE b + s
            /\ \A t \in IThreads : inc[t].new = DisplayGetBrightness(BrightSerial)

\* C30 witness: from 40% two calls with step 10 both read 40 and both
\* returned ok, and the display is at 50%, not 60%.
IncrementLostWitness ==
    /\ \A t \in IThreads :
          /\ inc[t].pc = "done" /\ inc[t].ret = Ok /\ inc[t].emitted
          /\ inc[t].current = 40 /\ inc[t].step = 10
    /\ 40 + 2 * 10 <= 100
    /\ device[BrightSerial] = 30200
    /\ DisplayGetBrightness(BrightSerial) = 50

\* C31: refreshDisplaysWithRetry makes at most maxRetries+1 refresh attempts;
\* it returns (true, nil) at the first attempt whose refresh succeeds with
\* Count() > 0 and makes no attempt after it; when the attempts are used up
\* it returns found = false, with an error exactly when the last attempt's
\* refresh failed (a successful but empty attempt clears the error of the
\* failed attempts before it).
RetryTasks == {"hotplug", "recovery"}

Returned(c) == c.pc \in {"check", "diff", "emit", "unlock"}

RetryContract ==
    \A t \in RetryTasks :
        LET c == coord[t]
        IN  /\ c.tries <= MaxRetries(t) + 1
            /\ c.pc = "backoff" =>
                  /\ c.tries <= MaxRetries(t)
                  /\ ~c.found
                  /\ c.lastFailed \/ Keys(displays) = {}
            /\ c.pc = "refresh" => ~c.found /\ c.tries <= MaxRetries(t)
            /\ (Returned(c) /\ c.found) =>
                  /\ ~c.lastErr
                  /\ ~c.lastFailed
                  /\ c.pc = "check" => Keys(displays) # {}
            /\ (Returned(c) /\ ~c.found) =>
                  /\ c.tries = MaxRetries(t) + 1
                  /\ c.lastErr <=> c.lastFailed
                  /\ c.pc = "check" => (c.lastFailed \/ Keys(displays) = {})

RetryContractWitness ==
    /\ coord["recovery"].pc = "check"
    /\ ~coord["recovery"].found
    /\ coord["recovery"].anyFailed
    /\ ~coord["recovery"].lastFailed
    /\ ~coord["recovery"].lastErr
    /\ coord["recovery"].tries = recoveryMaxRetries + 1

\* C32: inside refreshDisplaysWithRetry attempt 0 is not preceded by a sleep
\* and attempt k >= 1 is preceded by a sleep of min(2^(k-1), 16) seconds; with
\* the 2 s settle sleep and 5 retries the recovery handler sleeps at most 33 s
\* in all, the hot-plug handler (0.5 s settle on add, 3 retries) at most
\* 0.5 + 7 s.
RECURSIVE SumSeq(_)
SumSeq(seq) == IF seq = <<>> THEN 0 ELSE Head(seq) + SumSeq(Tail(seq))

\* The sleeps a handler at record c has made: its settle sleep, then one
\* sleep before each attempt from the second one on.
SleepsDue(t, c) ==
    LET settled == Settles(t) /\ c.pc \notin {"idle", "lock", "snapshot", "settle"}
        n == IF c.tries = 0 THEN 0
             ELSE IF c.pc = "refresh" THEN c.tries ELSE c.tries - 1
        secs(k) == IF 2^(k - 1) < 16 THEN 2^(k - 1) ELSE 16
    IN  (IF settled THEN << IF t = "hotplug" THEN 500 ELSE 2000 >> ELSE << >>)
          \o [k \in 1..n |-> 1000 * secs(k)]

BackoffSchedule ==
    \A t \in RetryTasks :
        /\ coord[t].slept = SleepsDue(t, coord[t])
        /\ SumSeq(coord[t].slept) <= IF t = "recovery" THEN 33000 ELSE 7500

BackoffScheduleWitness ==
    /\ coord["recovery"].pc = "check"
    /\ coord["recovery"].slept = <<2000, 1000, 2000, 4000, 8000, 16000>>
    /\ SumSeq(coord["recovery"].slept) = 33000

\* C36: a hot-plug Remove event handled after the last display has departed
\* (every refresh succeeds and finds no display): the handler makes all 4
\* refresh attempts, with backoffs of 1 s, 2 s and 4 s, holding refreshMu all
\* the while, and emits DisplayRemoved only after the last attempt.
AllAttemptsEmpty(c) ==
    /\ c.event = "remove"
    /\ c.oldDisplays # {}
    /\ c.tries >= 1
    /\ ~c.anyFailed
    /\ ~c.found

SignalStreamConsistent ==
    (refreshMu = NoThread /\ conn) => announced = Keys(displays)

\* C35: a BrightnessChanged(serial, v) signal goes out only after a write of
\* the percent v to the display of that serial has succeeded in the same
\* call: a SetBrightness, IncreaseBrightness or DecreaseBrightness call that
\* fails emits nothing, and SetAllBrightness emits for no display whose
\* lookup or write failed.
WriteSucceeded(serial) ==
    IF rpc.op = "SetAllBrightness"
      THEN \E k \in 1..Len(rpc.listed) :
              rpc.listed[k] = serial /\ rpc.outs[k] = Ok
      ELSE /\ rpc.op \in MutatingOps
           /\ rpc.ret = Ok
           /\ rpc.serial = serial

SignalOnlyAfterWrite ==
    /\ \A i \in 1..Len(rpc.emits) :
          LET g == rpc.emits[i]
          IN  /\ g[1] = "BrightnessChanged"
              /\ \E k \in 1..Len(rpc.writes) : rpc.writes[k] = <<g[2], g[3]>>
              /\ WriteSucceeded(g[2])
    /\ (rpc.ret # Ok /\ rpc.ret # "none") => rpc.emits = <<>>

\* C35 witness: an IncreaseBrightness call whose read succeeded and whose
\* write failed on the transport: the write was made and nothing was emitted.
SignalOnlyAfterWriteWitness ==
    /\ rpc.op = "IncreaseBrightness"
    /\ rpc.ret = ErrTransport
    /\ rpc.reads = 1
    /\ Len(rpc.writes) = 1
    /\ rpc.emits = <<>>
    /\ conn

\* C37: the debounce window starts at the last delivered REMOVE of a PRODUCT:
\* a dropped REMOVE leaves m.lastRemoveTime alone, so a REMOVE that follows a
\* delivered one of its PRODUCT is delivered exactly when 500 ms or more have
\* passed since that one, however close the dropped REMOVEs in between are.
DeliveredRemoves(i) ==
    {k \in 1..(i - 1) : /\ mlog[k].action = "remove"
                        /\ mlog[k].product = mlog[i].product
                        /\ mlog[k].delivered = "Remove"}

LastOf(ks) == CHOOSE k \in ks : \A j \in ks : j <= k

DebounceAnchoredAtDelivered ==
    /\ \A i \in 1..Len(mlog) :
          (mlog[i].action = "remove" /\ DeliveredRemoves(i) # {}) =>
              (mlog[i].delivered = "Remove"
                 <=> mlog[i].t - mlog[LastOf(DeliveredRemoves(i))].t >= 500)
    /\ \A p \in Products :
          LET ks == {k \in 1..Len(mlog) : /\ mlog[k].action = "remove"
                                          /\ mlog[k].product = p
                                          /\ mlog[k].delivered = "Remove"}
          IN  lastRemoveTime[p] = IF ks = {} THEN NoTime ELSE mlog[LastOf(ks)].t

\* C37 witness: three REMOVEs of one PRODUCT, each less than 500 ms after the
\* one before it: the first delivered, the second dropped, and the third,
\* 500 ms or more after the first, delivered.
DebounceAnchoredAtDeliveredWitness ==
    /\ Len(mlog) = 3
    /\ \A i \in 1..3 : mlog[i].action = "remove" /\ mlog[i].product = mlog[1].product
    /\ mlog[2].t - mlog[1].t < 500
    /\ mlog[3].t - mlog[2].t < 500
    /\ mlog[3].t - mlog[1].t >= 500
    /\ mlog[1].delivered = "Remove"
    /\ mlog[2].delivered = "none"
    /\ mlog[3].delivered = "Remove"
    /\ lastRemoveTime[mlog[1].product] = mlog[3].t

\* C38: the consumer handles uevents one at a time in the order received:
\* while a call of the hot-plug handler has not returned (lock wait, settle
\* sleep, retries and emission included) the consumer takes neither a uevent
\* nor an error, so at most one call of the handler is in progress.
OneEventAtATime ==
    /\ cons.inProgress <= 1
    /\ cons.inProgress = 1 => cons.pc = "handling"
    /\ cons.hpc # "none" => cons.pc = "handling"
    /\ ~cons.takenBusy
    /\ cons.taken = [i \in 1..Len(cons.taken) |-> i]

\* C38 witness: the handler of the first uevent is in its retries under
\* refreshMu while the second and third uevents and an error wait on their
\* channels.
OneEventAtATimeWitness ==
    /\ cons.pc = "handling"
    /\ cons.hpc = "refresh"
    /\ cons.attempt = 2
    /\ cons.holder = "hotplug"
    /\ cons.taken = <<1>>
    /\ Len(cons.queue) = 2
    /\ cons.errs = 1

\* C39: a GetDisplay that runs next to a RefreshDisplays reads the map while
\* no RefreshDisplays or Close is between its Lock and its Unlock, so it sees
\* the map one of them left and the next one finds; a serial that was in the
\* map when a refresh took the lock and is in its enumerator output stays in
\* the map all through that refresh, so GetDisplay does not return not-found
\* for it.
GetDisplaySeesNoHalfRefresh ==
    /\ ReaderHolds => mmu = NoThread
    /\ getter.ret # "none" =>
          /\ getter.during = NoThread
          /\ getter.ret = IF getter.serial \in getter.seen
                            THEN Ok ELSE ErrNotFound
    /\ \A t \in MThreads :
          (mop[t] = "refresh" /\ mpc[t] \in {"remove", "open", "unlock"}
             /\ ~enumErr[t]) =>
              \A s \in before[t] \cap currentSerials[t] : displays[s] # "none"

\* C39 witness: GetDisplay(A) was called while a refresh that found A in the
\* map and enumerates A only was removing B; it waited for the lock, and
\* read the map after the refresh: A found.
GetDisplaySeesNoHalfRefreshWitness ==
    /\ getter.pc = "runlock"
    /\ getter.serial = "A"
    /\ getter.ret = Ok
    /\ getter.seen = {"A"}
    /\ lastRun.op = "refresh"
    /\ lastRun.devices = <<"A">>
    /\ \E t \in MThreads : mpc[t] = "lock" /\ mop[t] = "refresh"

RemovedSerialHasNoItem ==
    \A s \in toggle.removed : toggle.menu[s] = 0

====
